---- MODULE Spec2Model ----
(***************************************************************************)
(* Item lowering of rustc_ast_lowering (src/item.rs): the ItemLowerer      *)
(* visitor and the LoweringContext methods it drives, as a state machine.  *)
(*                                                                         *)
(* The surface crate is fixed in Init.  The visitor's recursion is an      *)
(* explicit stack of frames; each visit_* handler is one action.  The      *)
(* LoweringContext is the record lctx; a method `fn m(&mut self, ..) -> T` *)
(* is an operator from a context to [c |-> context, v |-> T].              *)
(***************************************************************************)
EXTENDS Integers, Sequences, FiniteSets, TLC

VARIABLES
    crate,      \* the surface tree being lowered (never mutated)
    lctx,       \* the LoweringContext
    stack,      \* the ItemLowerer's call stack (innermost frame last)
    trace       \* history: one entry per completed visit_item (entry/exit snapshots)

vars == <<crate, lctx, stack, trace>>

(***************************************************************************)
(* Bounds of the model.                                                    *)
(***************************************************************************)
\* number of nodes (leaves and groups together) of one `use` tree
MaxUseNodes == 3
\* number of predicates of one where-clause
MaxPreds == 2
\* number of nodes (items and members together) of one driver crate
MaxItemNodes == 3

(***************************************************************************)
(* Small helpers on sequences and maps.                                    *)
(***************************************************************************)
Put(f, k, v) == (k :> v) @@ f

Last(s) == s[Len(s)]

Front(s) == SubSeq(s, 1, Len(s) - 1)

Range(s) == {s[i] : i \in DOMAIN s}

RECURSIVE SelectIdx(_, _)
\* the indices i of s, ascending, with s[i] \in keep
SelectIdx(s, keep) ==
    IF s = <<>> THEN <<>>
    ELSE SelectIdx(Front(s), keep) \o (IF Last(s) \in keep THEN <<Len(s)>> ELSE <<>>)

(***************************************************************************)
(* Identifiers.  A NodeId names a surface node by its kind and position;   *)
(* nodes created during lowering come from the resolver's counter.         *)
(***************************************************************************)
Nid(tag, pos, n) == [tag |-> tag, pos |-> pos, n |-> n]

ItemNid(pos) == Nid("node", pos, 0)

FreshNid(n) == Nid("fresh", <<>>, n)

CRATE_NODE_ID == Nid("crate", <<>>, 0)

\* `None` where an owner may be given explicitly
NoExplicitOwner == CRATE_NODE_ID

\* resolver.local_def_id: the definition a node id stands for
LocalDefId(nid) == [def |-> nid]

Ident(sym, pos) == [sym |-> sym, at |-> pos]

\* kw::SelfLower
SelfLower == "self"

(***************************************************************************)
(* The LoweringContext after construction.  `issued` and `opened` are      *)
(* history fields: every HirId handed out, and every owner entered; so is  *)
(* `lowerings`: the in-scope lifetimes each lower_item began and ended with.*)
(***************************************************************************)
HIR_ID_COUNTER_LOCKED == -1

ResErr == [ns |-> "err", target |-> CRATE_NODE_ID]

NoHirId == [owner |-> LocalDefId(CRATE_NODE_ID), local_id |-> HIR_ID_COUNTER_LOCKED]

EmptyModule == [items |-> {}, trait_items |-> {}, impl_items |-> {}, foreign_items |-> {}]

NewContext ==
    [ items |-> <<>>,                \* BTreeMap<ItemId, hir::Item>
      item_log |-> <<>>,             \* def ids in the order insert_item received them
      trait_items |-> <<>>,
      trait_item_log |-> <<>>,
      impl_items |-> <<>>,
      impl_item_log |-> <<>>,
      foreign_items |-> <<>>,
      modules |-> <<>>,
      item_local_id_counters |-> <<>>,
      node_id_to_hir_id |-> <<>>,
      current_hir_id_owner |-> <<[def_id |-> LocalDefId(CRATE_NODE_ID), counter |-> 0]>>,
      in_scope_lifetimes |-> <<>>,
      lifetimes_to_define |-> <<>>,
      current_module |-> LocalDefId(CRATE_NODE_ID),
      is_in_trait_impl |-> FALSE,
      next_node_id |-> 0,            \* resolver.next_node_id
      diagnostics |-> <<>>,          \* the session's diagnostic sink
      exported_macros |-> <<>>,
      non_exported_macro_attrs |-> <<>>,
      bodies |-> <<>>,               \* BTreeMap<BodyId, hir::Body>
      generator_kind |-> "None",
      task_context |-> "None",
      fault |-> "none",              \* the panic that ended the run, if any
      issued |-> <<>>,
      opened |-> {},
      lowerings |-> <<>> ]

Ret(c, v) == [c |-> c, v |-> v]

\* a block: `Do([x \in {e} |-> body])` is body with x naming the value of e,
\* e being evaluated first, as statements are in program order
Do(f) == f[CHOOSE x \in DOMAIN f : TRUE]

\* a panic that is swallowed
PanicIgnored(c, msg) == c

\* a panic: the first one ends the run
Panic(c, msg) == IF c.fault = "none" THEN [c EXCEPT !.fault = msg] ELSE c

(***************************************************************************)
(* Scope/identity allocator (LoweringContext, lib.rs).                     *)
(***************************************************************************)
\* lower_node_id_with_owner: the HirId of `nid`, allocated under `owner`'s
\* stored counter when the node has none yet
LowerNodeIdWithOwner(c, nid, owner) ==
    IF nid \in DOMAIN c.node_id_to_hir_id THEN Ret(c, c.node_id_to_hir_id[nid])
    ELSE IF owner \notin DOMAIN c.item_local_id_counters
    THEN Ret(Panic(c, "lower_node_id_with_owner before allocate_hir_id_counter"), NoHirId)
    ELSE LET local_id == c.item_local_id_counters[owner]
             h == [owner |-> LocalDefId(owner), local_id |-> local_id]
         IN IF local_id = HIR_ID_COUNTER_LOCKED
            THEN Ret(Panic(c, "owner counter is locked"), NoHirId)
            ELSE Ret([c EXCEPT !.item_local_id_counters[owner] = local_id + 1,
                               !.node_id_to_hir_id = Put(@, nid, h),
                               !.issued = Append(@, h)], h)

\* allocate_hir_id_counter: set up the owner's counter if needed; the first
\* HirId of an owner is the owner itself
AllocateHirIdCounter(c, owner) ==
    LET c1 == IF owner \in DOMAIN c.item_local_id_counters THEN c
              ELSE [c EXCEPT !.item_local_id_counters = Put(@, owner, 0)]
    IN LowerNodeIdWithOwner(c1, owner, owner)

\* lower_node_id: the HirId of `nid`, allocated under the current owner when
\* the node has none yet
LowerNodeId(c, nid) ==
    IF nid \in DOMAIN c.node_id_to_hir_id THEN Ret(c, c.node_id_to_hir_id[nid])
    ELSE LET top == Last(c.current_hir_id_owner)
             h == [owner |-> top.def_id, local_id |-> top.counter]
         IN Ret([c EXCEPT !.current_hir_id_owner[Len(c.current_hir_id_owner)].counter = @ + 1,
                          !.node_id_to_hir_id = Put(@, nid, h),
                          !.issued = Append(@, h)], h)

\* next_id: a HirId for a node that exists only in the lowered tree
NextId(c) ==
    LowerNodeId([c EXCEPT !.next_node_id = @ + 1], FreshNid(c.next_node_id))

\* with_hir_id_owner, entry: the owner's counter moves from the map (where it
\* is locked meanwhile) to the top of the owner stack
HirIdOwnerEnter(c, owner) ==
    IF owner \notin DOMAIN c.item_local_id_counters
    THEN Panic(c, "no item_local_id_counters entry")
    ELSE [c EXCEPT !.item_local_id_counters[owner] = HIR_ID_COUNTER_LOCKED,
                   !.current_hir_id_owner =
                       Append(@, [def_id |-> LocalDefId(owner),
                                  counter |-> c.item_local_id_counters[owner]]),
                   !.opened = @ \cup {LocalDefId(owner)}]

\* with_hir_id_owner, exit: the counter is written back
HirIdOwnerExit(c, owner) ==
    IF c.fault # "none" THEN c
    ELSE [c EXCEPT !.item_local_id_counters[owner] = Last(c.current_hir_id_owner).counter,
                   !.current_hir_id_owner = Front(@)]

\* HirId::expect_owner
ExpectOwner(c, h) ==
    IF h.local_id = 0 THEN Ret(c, h.owner) ELSE Ret(Panic(c, "expect_owner"), h.owner)

\* insert_item: the item map and the current module's item set
InsertItem(c, item) ==
    IF c.fault # "none" THEN c
    ELSE LET m == IF c.current_module \in DOMAIN c.modules
                  THEN c.modules[c.current_module] ELSE EmptyModule
         IN [c EXCEPT !.items = Put(@, item.def_id, item),
                      !.item_log = Append(@, item.def_id),
                      !.modules = Put(@, c.current_module,
                                      [m EXCEPT !.items = @ \cup {item.def_id}])]

(***************************************************************************)
(* Surface `use` trees.  A node is Simple (`a`, `a as b`, `self`), Glob    *)
(* (`g::*`) or Nested (`m::{..}`); `res` is what the resolver recorded for *)
(* the node's id, as the set of namespaces the import resolved in.         *)
(* The node at position pos has id ItemNid(pos); its j-th nested child is  *)
(* at pos \o <<j>>; a Simple node also owns Nid("ns", pos, 1) and          *)
(* Nid("ns", pos, 2), the ids reserved for its further namespaces.         *)
(***************************************************************************)
\* PerNS, in the order present_items yields it
Namespaces == <<"type", "value", "macro">>

UseTree(kind, form, res, kids) == [kind |-> kind, form |-> form, res |-> res, kids |-> kids]

UseLeaves ==
    {UseTree("Simple", "plain", r, <<>>) : r \in SUBSET Range(Namespaces)}
    \cup {UseTree("Simple", "rename", {"value"}, <<>>),
          UseTree("Simple", "rename", {"type", "value"}, <<>>),
          UseTree("Simple", "self", {"type"}, <<>>),
          UseTree("Glob", "plain", {}, <<>>)}

RECURSIVE UseTreesOfSize(_), UseForestsOfSize(_)
\* the use trees with exactly n nodes; an empty group `m::{}` is imported as
\* `m::{self as _}`, so only an empty group can carry a resolution
UseTreesOfSize(n) ==
    (IF n = 1 THEN UseLeaves \cup {UseTree("Nested", "plain", {"type"}, <<>>)} ELSE {})
    \cup {UseTree("Nested", "plain", {}, f) : f \in UseForestsOfSize(n - 1)}

UseForestsOfSize(n) ==
    IF n = 0 THEN {<<>>}
    ELSE UNION {{<<t>> \o f : t \in UseTreesOfSize(k), f \in UseForestsOfSize(n - k)}
                : k \in 1..n}

UseTrees == UNION {UseTreesOfSize(n) : n \in 1..MaxUseNodes}

RECURSIVE UseTreeSize(_), UseForestSize(_)
UseTreeSize(t) == 1 + UseForestSize(t.kids)

UseForestSize(f) == IF f = <<>> THEN 0 ELSE UseTreeSize(Head(f)) + UseForestSize(Tail(f))

\* tree.prefix: the path written at this node
TreePrefix(tree, pos) ==
    LET sym == CASE tree.kind = "Nested" -> "stem"
                 [] tree.kind = "Glob" -> "globbed"
                 [] tree.form = "self" -> SelfLower
                 [] OTHER -> "leaf"
    IN <<[ident |-> Ident(sym, pos), id |-> Nid("seg", pos, 1)]>>

\* UseTree::ident: the alias, or the last segment of the written path
TreeIdent(tree, pos) ==
    IF tree.form = "rename" THEN Ident("alias", pos) ELSE Last(TreePrefix(tree, pos)).ident

\* resolver.get_import_res(id).present_items(): the namespaces that resolved
ExpectFullResFromUse(tree, pos) ==
    LET present == SelectIdx(Namespaces, tree.res)
    IN [i \in 1..Len(present) |->
            [ns |-> Namespaces[present[i]], target |-> ItemNid(pos)]]

\* lower_res: definitions keep their identity
LowerRes(res) == [ns |-> res.ns, target |-> res.target]

(***************************************************************************)
(* Lowered paths and visibilities.                                         *)
(***************************************************************************)
NoPath == [res |-> ResErr, segments |-> <<>>]

HirVis(node, path, hir_id) == [node |-> node, path |-> path, hir_id |-> hir_id]

RECURSIVE LowerPathSegments(_, _, _)
\* lower_path_segment over a path: each segment gets the HirId of its node,
\* under the current owner, or under explicit_owner when one is given
LowerPathSegments(c, segs, explicit_owner) ==
    IF c.fault # "none" \/ segs = <<>> THEN Ret(c, <<>>)
    ELSE Do([h \in {IF explicit_owner = NoExplicitOwner THEN LowerNodeId(c, Head(segs).id)
                    ELSE LowerNodeIdWithOwner(c, Head(segs).id, explicit_owner)} |->
         Do([rest \in {LowerPathSegments(h.c, Tail(segs), explicit_owner)} |->
             Ret(rest.c, <<[ident |-> Head(segs).ident, hir_id |-> h.v]>> \o rest.v)])])

\* lower_path_extra
LowerPathExtra(c, res, segs, explicit_owner) ==
    Do([r \in {LowerPathSegments(c, segs, explicit_owner)} |->
        Ret(r.c, [res |-> res, segments |-> r.v])])

\* lower_path (of a glob import): the path with the module it names
LowerPath(c, pos, segs) ==
    LowerPathExtra(c, [ns |-> "type", target |-> ItemNid(pos)], segs, NoExplicitOwner)

\* the path of a `pub(in p)` visibility written at pos
VisPath(pos) == <<[ident |-> Ident("p", pos), id |-> Nid("visseg", pos, 1)]>>

\* lower_visibility
LowerVisibility(c, vis, pos, explicit_owner) ==
    IF vis = "Restricted"
    THEN Do([lowered_id \in {IF explicit_owner = NoExplicitOwner
                             THEN LowerNodeId(c, Nid("vis", pos, 0))
                             ELSE LowerNodeIdWithOwner(c, Nid("vis", pos, 0), explicit_owner)} |->
         Do([path \in {LowerPathExtra(lowered_id.c,
                                      [ns |-> "type", target |-> Nid("vis", pos, 0)],
                                      VisPath(pos), explicit_owner)} |->
             Ret(path.c, HirVis("Restricted", path.v, lowered_id.v))])])
    ELSE Ret(c, HirVis(vis, NoPath, NoHirId))

RECURSIVE RebuildSegments(_, _)
RebuildSegments(c, segs) ==
    IF c.fault # "none" \/ segs = <<>> THEN Ret(c, <<>>)
    ELSE Do([h \in {NextId(c)} |->
         Do([rest \in {RebuildSegments(h.c, Tail(segs))} |->
             Ret(rest.c, <<[ident |-> Head(segs).ident, hir_id |-> h.v]>> \o rest.v)])])

\* rebuild_use_path: the same path with a new HirId on every segment
RebuildUsePath(c, path) ==
    Do([r \in {RebuildSegments(c, path.segments)} |->
        Ret(r.c, [res |-> path.res, segments |-> r.v])])

\* the copy is private
RebuildVisPrivate(c, vis) == Ret(c, HirVis("Inherited", NoPath, NoHirId))

\* the copy keeps the ids of the visibility it is made from
RebuildVisSharingIds(c, vis) == Ret(c, vis)

\* rebuild_vis: a copy of the visibility for another import record
RebuildVis(c, vis) ==
    IF vis.node = "Restricted"
    THEN Do([path \in {RebuildUsePath(c, vis.path)} |->
         Do([hir_id \in {NextId(path.c)} |->
             Ret(hir_id.c, HirVis("Restricted", path.v, hir_id.v))])])
    ELSE Ret(c, HirVis(vis.node, NoPath, NoHirId))

(***************************************************************************)
(* Lowered items.  One record shape serves every item kind; a field an     *)
(* item kind does not have keeps its default.                              *)
(***************************************************************************)
NoGenerics == [params |-> <<>>, where_clause |-> <<>>]

HirKind(k) ==
    [k |-> k, path |-> NoPath, use_kind |-> "none", ctor |-> NoHirId,
     generics |-> NoGenerics, item_ids |-> <<>>, refs |-> <<>>, of_trait |-> FALSE,
     abi |-> "none", body_id |-> NoHirId]

HirUse(path, use_kind) == [HirKind("Use") EXCEPT !.path = path, !.use_kind = use_kind]

HirItem(def_id, ident, kind, vis) ==
    [def_id |-> def_id, ident |-> ident, kind |-> kind, vis |-> vis]

(***************************************************************************)
(* Use-tree flattener: lower_use_tree and its parts.                       *)
(***************************************************************************)
\* the last segment of a longer path is dropped whatever it is
SelfImportAnyName(path, tree, ident) ==
    IF Len(path) > 1
    THEN [path |-> Front(path),
          ident |-> IF tree.form # "rename" THEN Last(Front(path)).ident ELSE ident]
    ELSE [path |-> path, ident |-> ident]

\* "Correctly resolve `self` imports": a trailing `self` is dropped from a
\* longer path, and without an alias the import is named after the module
SelfImport(path, tree, ident) ==
    IF Len(path) > 1 /\ Last(path).ident.sym = SelfLower
    THEN [path |-> Front(path),
          ident |-> IF tree.form # "rename" THEN Last(Front(path)).ident ELSE ident]
    ELSE [path |-> path, ident |-> ident]

\* the target of the record returned for the leaf: the last resolution
RetResLast(resolutions) ==
    LowerRes(IF resolutions = <<>> THEN ResErr ELSE Last(resolutions))

\* the target of the record returned for the leaf: a resolution is made up
\* when there is none
RetResMadeUp(resolutions) ==
    LowerRes(IF resolutions = <<>> THEN [ns |-> "type", target |-> CRATE_NODE_ID]
             ELSE Head(resolutions))

\* the target of the record returned for the leaf (or group): the first
\* resolution, or the error marker when there is none
RetRes(resolutions) ==
    LowerRes(IF resolutions = <<>> THEN ResErr ELSE Head(resolutions))

\* every resolution, the first included, paired with a reserved id
ExtraResolutionsAll(resolutions, pos) ==
    LET ids == <<Nid("ns", pos, 1), Nid("ns", pos, 2)>>
        n == IF Len(resolutions) < 2 THEN Len(resolutions) ELSE 2
    IN [i \in 1..n |-> [res |-> resolutions[i], id |-> ids[i]]]

\* the further namespaces are paired with the id of the leaf itself
ExtraResolutionsOwnId(resolutions, pos) ==
    LET rest == IF resolutions = <<>> THEN <<>> ELSE Tail(resolutions)
        n == IF Len(rest) < 2 THEN Len(rest) ELSE 2
    IN [i \in 1..n |-> [res |-> rest[i], id |-> ItemNid(pos)]]

\* resolutions.zip([id1, id2]) once the first resolution has been taken: the
\* further namespaces, each paired with the id reserved for it
ExtraResolutions(resolutions, pos) ==
    LET rest == IF resolutions = <<>> THEN <<>> ELSE Tail(resolutions)
        ids == <<Nid("ns", pos, 1), Nid("ns", pos, 2)>>
        n == IF Len(rest) < 2 THEN Len(rest) ELSE 2
    IN [i \in 1..n |-> [res |-> rest[i], id |-> ids[i]]]

\* a cloned path whose segments keep the node ids of the original
ClonePathSharingIds(c, segs) == Ret(c, segs)

RECURSIVE ClonePath(_, _)
\* path.clone() followed by `seg.id = self.resolver.next_node_id()`
ClonePath(c, segs) ==
    IF c.fault # "none" \/ segs = <<>> THEN Ret(c, <<>>)
    ELSE Do([rest \in {ClonePath([c EXCEPT !.next_node_id = @ + 1], Tail(segs))} |->
             Ret(rest.c, <<[ident |-> Head(segs).ident, id |-> FreshNid(c.next_node_id)]>>
                         \o rest.v)])

\* the list stem keeps the visibility of the `use`
ListStemVisKept(vis) == vis

\* the list stem is made private, except under a restricted visibility
ListStemVis(vis) ==
    IF vis.node \in {"Public", "Crate", "Inherited"}
    THEN HirVis("Inherited", NoPath, NoHirId)
    ELSE vis

RECURSIVE LowerExtraImports(_, _, _, _, _)
\* the loop over the further namespaces of a simple import: one more
\* `Single` record each, under the reserved id as its own owner
LowerExtraImports(c, pairs, path, ident, vis) ==
    IF c.fault # "none" \/ pairs = <<>> THEN c
    ELSE Do([cloned \in {ClonePath(c, path)} |->
         Do([new_id \in {LowerNodeId(HirIdOwnerEnter(cloned.c, Head(pairs).id),
                                     Head(pairs).id)} |->
         Do([lowered \in {LowerPathExtra(new_id.c, LowerRes(Head(pairs).res), cloned.v,
                                         NoExplicitOwner)} |->
         Do([new_vis \in {RebuildVis(lowered.c, vis)} |->
         Do([def_id \in {ExpectOwner(new_vis.c, new_id.v)} |->
             LowerExtraImports(
                 HirIdOwnerExit(InsertItem(def_id.c, HirItem(def_id.v, ident,
                                                             HirUse(lowered.v, "Single"),
                                                             new_vis.v)),
                                Head(pairs).id),
                 Tail(pairs), path, ident, vis)])])])])])

RECURSIVE LowerUseTree(_, _, _, _, _, _), LowerNestedTrees(_, _, _, _, _, _, _)
\* lower_use_tree(tree, prefix, id, vis, ident): the kind of the record for
\* this node, with the visibility and the name as the call leaves them; the
\* records of everything below the node are inserted on the way
LowerUseTree(c, tree, pos, prefix, vis, ident) ==
    CASE c.fault # "none" ->
           [c |-> c, kind |-> HirKind("none"), vis |-> vis, ident |-> ident]
      [] tree.kind = "Simple" ->
           Do([fixed \in {SelfImport(prefix \o TreePrefix(tree, pos), tree,
                                     TreeIdent(tree, pos))} |->
           Do([resolutions \in {ExpectFullResFromUse(tree, pos)} |->
           Do([c1 \in {LowerExtraImports(c, ExtraResolutions(resolutions, pos),
                                         fixed.path, fixed.ident, vis)} |->
           Do([path \in {LowerPathExtra(c1, RetRes(resolutions), fixed.path,
                                        NoExplicitOwner)} |->
               [c |-> path.c, kind |-> HirUse(path.v, "Single"),
                vis |-> vis, ident |-> fixed.ident]])])])])
      [] tree.kind = "Glob" ->
           Do([path \in {LowerPath(c, pos, prefix \o TreePrefix(tree, pos))} |->
               [c |-> path.c, kind |-> HirUse(path.v, "Glob"),
                vis |-> vis, ident |-> ident]])
      [] OTHER ->
           Do([c1 \in {LowerNestedTrees(c, tree.kids, 1, pos, prefix \o TreePrefix(tree, pos),
                                        vis, ident)} |->
           Do([path \in {LowerPathExtra(c1, RetRes(ExpectFullResFromUse(tree, pos)),
                                        prefix \o TreePrefix(tree, pos), NoExplicitOwner)} |->
               [c |-> path.c, kind |-> HirUse(path.v, "ListStem"),
                vis |-> ListStemVis(vis), ident |-> ident]])])

RECURSIVE LowerNestedTreesBackwards(_, _, _, _, _, _, _)
\* the loop takes the children of the group from the last to the first
LowerNestedTreesBackwards(c, trees, j, pos, prefix, vis, ident) ==
    IF c.fault # "none" \/ j > Len(trees) THEN c
    ELSE Do([k \in {Len(trees) + 1 - j} |->
         Do([new_hir_id \in {LowerNodeId(c, ItemNid(pos \o <<k>>))} |->
         Do([cloned \in {ClonePath(new_hir_id.c, prefix)} |->
         Do([new_vis \in {RebuildVis(HirIdOwnerEnter(cloned.c, ItemNid(pos \o <<k>>)), vis)} |->
         Do([r \in {LowerUseTree(new_vis.c, trees[k], pos \o <<k>>, cloned.v, new_vis.v,
                                 ident)} |->
         Do([def_id \in {ExpectOwner(r.c, new_hir_id.v)} |->
             LowerNestedTreesBackwards(
                 HirIdOwnerExit(InsertItem(def_id.c, HirItem(def_id.v, r.ident, r.kind, r.vis)),
                                ItemNid(pos \o <<k>>)),
                 trees, j + 1, pos, prefix, vis, ident)])])])])])])

\* "Add all the nested PathListItems to the HIR": the loop over the j-th and
\* later children of the group at pos
LowerNestedTrees(c, trees, j, pos, prefix, vis, ident) ==
    IF c.fault # "none" \/ j > Len(trees) THEN c
    ELSE Do([new_hir_id \in {LowerNodeId(c, ItemNid(pos \o <<j>>))} |->
         Do([cloned \in {ClonePath(new_hir_id.c, prefix)} |->
         Do([new_vis \in {RebuildVis(HirIdOwnerEnter(cloned.c, ItemNid(pos \o <<j>>)), vis)} |->
         Do([r \in {LowerUseTree(new_vis.c, trees[j], pos \o <<j>>, cloned.v, new_vis.v,
                                 ident)} |->
         Do([def_id \in {ExpectOwner(r.c, new_hir_id.v)} |->
             LowerNestedTrees(
                 HirIdOwnerExit(InsertItem(def_id.c, HirItem(def_id.v, r.ident, r.kind, r.vis)),
                                ItemNid(pos \o <<j>>)),
                 trees, j + 1, pos, prefix, vis, ident)])])])])])

(***************************************************************************)
(* Surface generics.  The k-th parameter of the item at pos has id         *)
(* Nid("param", pos, k); the bounded type of its i-th where-predicate has  *)
(* id Nid("ty", pos, i), which also stands for the type's span.            *)
(***************************************************************************)
GenericParam(kind, name, bounds) == [kind |-> kind, name |-> name, bounds |-> bounds]

\* what the resolver recorded for a type: the kind of definition and its id
TyRes(k, def) == [k |-> k, def |-> def]

\* a type: TyKind::Path without qself ("Path", with its number of segments),
\* TyKind::Path with qself ("QPath"), or any other kind ("Ref")
Ty(shape, nsegs, res) == [shape |-> shape, nsegs |-> nsegs, res |-> res]

\* a where-predicate; hr: whether it has a `for<..>` binder
WherePred(kind, ty, hr, bounds) == [kind |-> kind, ty |-> ty, hr |-> hr, bounds |-> bounds]

Generics(params, preds) == [params |-> params, preds |-> preds]

OuterTyParam == Nid("param", <<>>, 1)

SomeStruct == Nid("node", <<>>, 0)

TypeParamIdx(params) == {k \in DOMAIN params : params[k].kind = "Type"}

\* a one-segment path naming the k-th parameter of the item at pos
OwnTy(pos, k) == Ty("Path", 1, TyRes("TyParam", Nid("param", pos, k)))

StructTy == Ty("Path", 1, TyRes("Struct", SomeStruct))

RefTy == Ty("Ref", 1, TyRes("none", SomeStruct))

\* the types a where-clause of the item at pos can bound
BoundedTys(params, pos) ==
    {OwnTy(pos, k) : k \in TypeParamIdx(params)}
    \cup {Ty("Path", 2, TyRes("TyParam", Nid("param", pos, k))) : k \in TypeParamIdx(params)}
    \cup {Ty("Path", 1, TyRes("TyParam", OuterTyParam)), StructTy,
          Ty("QPath", 1, TyRes("Struct", SomeStruct)), RefTy}

\* the where-predicates an item at pos can have; bound lists are given by
\* their modifiers, TraitBoundModifier::None and ::Maybe
WherePreds(params, pos) ==
    {WherePred("Bound", ty, FALSE, <<"Maybe">>) : ty \in BoundedTys(params, pos)}
    \cup {WherePred("Bound", ty, FALSE, bs) :
              ty \in {OwnTy(pos, k) : k \in TypeParamIdx(params)} \cup {StructTy},
              bs \in {<<"None", "Maybe">>, <<"Maybe", "Maybe">>}}
    \cup {WherePred("Bound", OwnTy(pos, k), TRUE, <<"Maybe">>) : k \in TypeParamIdx(params)}
    \cup {WherePred("Bound", RefTy, FALSE, <<"None">>),
          WherePred("Region", RefTy, FALSE, <<"None">>),
          WherePred("Eq", RefTy, FALSE, <<>>)}

RECURSIVE SeqsUpTo(_, _)
\* the sequences over S of length at most n
SeqsUpTo(S, n) ==
    IF n = 0 THEN {<<>>}
    ELSE LET shorter == SeqsUpTo(S, n - 1)
         IN shorter \cup {Append(q, x) : q \in shorter, x \in S}

\* a name with its hygiene context: "root" (written in the crate), "semi"
\* (from a macro_rules expansion) or "opaque" (from a macros 2.0 expansion)
Name(sym, ctxt) == [sym |-> sym, ctxt |-> ctxt]

\* Ident::normalize_to_macros_2_0: the marks of macro_rules expansions go
NormalizeToMacros20(name) ==
    [sym |-> name.sym, ctxt |-> IF name.ctxt = "semi" THEN "root" ELSE name.ctxt]

TypeParam == GenericParam("Type", Name("T", "root"), <<>>)

BoundedTypeParam == GenericParam("Type", Name("U", "root"), <<"None">>)

LifetimeParam(sym) == GenericParam("Lifetime", Name(sym, "root"), <<>>)

ConstParam == GenericParam("Const", Name("N", "root"), <<>>)

ParamLists ==
    {<<>>, <<BoundedTypeParam>>, <<LifetimeParam("'a"), TypeParam>>, <<ConstParam>>,
     <<TypeParam, BoundedTypeParam>>}

GenericsPool(pos) ==
    UNION {{Generics(ps, q) : q \in SeqsUpTo(WherePreds(ps, pos), MaxPreds)} : ps \in ParamLists}

(***************************************************************************)
(* Generics and where-clause lowering.                                     *)
(***************************************************************************)
\* a lowered bound remembers the surface bound it was lowered from: the
\* j-th bound of predicate i, or the j-th declared bound of a parameter (i = 0)
HirBound(modifier, i, j) == [modifier |-> modifier, pred |-> i, idx |-> j]

OptionalBoundMessage ==
    "?Trait bounds are only permitted at the point where a type parameter is declared"

\* report_error: one diagnostic at the span of the predicate's bounded type
ReportError(c, pos, i) ==
    [c EXCEPT !.diagnostics = Append(@, [span |-> Nid("ty", pos, i),
                                         msg |-> OptionalBoundMessage])]

\* the first type parameter any single-segment path is taken to name
OwnParamAnyPath(generics, pos, pred) ==
    IF pred.ty.shape = "Path" /\ pred.ty.nsegs = 1 /\ TypeParamIdx(generics.params) # {}
    THEN {CHOOSE k \in TypeParamIdx(generics.params) :
              \A m \in TypeParamIdx(generics.params) : k <= m}
    ELSE {}

\* "Check if the where clause type is a plain type parameter": the positions
\* of the parameters of this list a predicate's optional bounds go to (at
\* most one): the type is a path without qself, of one segment, under no
\* binder, resolved to a type parameter that this list declares
OwnParam(generics, pos, pred) ==
    IF pred.ty.shape = "Path" /\ pred.ty.nsegs = 1 /\ ~pred.hr
       /\ pred.ty.res.k = "TyParam"
    THEN {k \in TypeParamIdx(generics.params) :
              LocalDefId(pred.ty.res.def) = LocalDefId(Nid("param", pos, k))}
    ELSE {}

RECURSIVE CollectBounds(_, _, _, _, _, _)
\* 'next_bound: the loop over the bounds j.. of predicate i; add_bounds maps a
\* parameter position to the optional bounds moved onto it
CollectBounds(c, add_bounds, generics, pos, i, j) ==
    LET pred == generics.preds[i]
    IN IF c.fault # "none" \/ j > Len(pred.bounds) THEN Ret(c, add_bounds)
       ELSE IF pred.bounds[j] # "Maybe"
       THEN CollectBounds(c, add_bounds, generics, pos, i, j + 1)
       ELSE LET own == OwnParam(generics, pos, pred)
            IN IF own # {}
               THEN LET k == CHOOSE k \in own : TRUE
                        old == IF k \in DOMAIN add_bounds THEN add_bounds[k] ELSE <<>>
                    IN CollectBounds(c, Put(add_bounds, k, Append(old, HirBound("Maybe", i, j))),
                                     generics, pos, i, j + 1)
               ELSE CollectBounds(ReportError(c, pos, i), add_bounds, generics, pos, i, j + 1)

RECURSIVE CollectPreds(_, _, _, _, _)
\* "Collect `?Trait` bounds in where clause and move them to parameter
\* definitions": the loop over the predicates i..
CollectPreds(c, add_bounds, generics, pos, i) ==
    IF c.fault # "none" \/ i > Len(generics.preds) THEN Ret(c, add_bounds)
    ELSE IF generics.preds[i].kind # "Bound"
    THEN CollectPreds(c, add_bounds, generics, pos, i + 1)
    ELSE Do([r \in {CollectBounds(c, add_bounds, generics, pos, i, 1)} |->
             CollectPreds(r.c, r.v, generics, pos, i + 1)])

\* the declared bounds of a parameter, lowered
DeclaredBounds(param) == [j \in DOMAIN param.bounds |-> HirBound(param.bounds[j], 0, j)]

RECURSIVE LowerGenericParamsMut(_, _, _, _, _)
\* lower_generic_params_mut: each parameter with its declared bounds, a type
\* parameter followed by the bounds add_bounds holds for it
LowerGenericParamsMut(c, params, add_bounds, pos, k) ==
    IF c.fault # "none" \/ k > Len(params) THEN Ret(c, <<>>)
    ELSE Do([hir_id \in {LowerNodeId(c, Nid("param", pos, k))} |->
         Do([rest \in {LowerGenericParamsMut(hir_id.c, params, add_bounds, pos, k + 1)} |->
             Ret(rest.c,
                 <<[hir_id |-> hir_id.v, kind |-> params[k].kind, name |-> params[k].name,
                    bounds |-> DeclaredBounds(params[k])
                               \o (IF params[k].kind = "Type" /\ k \in DOMAIN add_bounds
                                   THEN add_bounds[k] ELSE <<>>)]>> \o rest.v)])])

\* the bounds of a predicate, optional ones kept
KeptBoundsAll(pred, i) == [j \in DOMAIN pred.bounds |-> HirBound(pred.bounds[j], i, j)]

\* "Ignore `?Trait` bounds. They were copied into type parameters already."
KeptBounds(pred, i) ==
    LET keep == SelectIdx(pred.bounds, {"None"})
    IN [n \in DOMAIN keep |-> HirBound(pred.bounds[keep[n]], i, keep[n])]

\* with_in_scope_lifetime_defs, entry and exit
InScopeEnter(c, names) == [c EXCEPT !.in_scope_lifetimes = @ \o names]

InScopeExit(c, old_len) == [c EXCEPT !.in_scope_lifetimes = SubSeq(@, 1, old_len)]

\* lower_where_predicate, of predicate i of the item at pos
LowerWherePredicate(c, pred, pos, i) ==
    CASE pred.kind = "Bound" ->
           Do([ty \in {LowerNodeId(InScopeEnter(c, IF pred.hr THEN <<Name("'hr", "root")>>
                                                   ELSE <<>>),
                                   Nid("ty", pos, i))} |->
               Ret(InScopeExit(ty.c, Len(c.in_scope_lifetimes)),
                   [kind |-> "Bound", hir_id |-> ty.v, hr |-> pred.hr,
                    bounds |-> KeptBounds(pred, i)])])
      [] pred.kind = "Region" ->
           Ret(c, [kind |-> "Region", hir_id |-> NoHirId, hr |-> FALSE,
                   bounds |-> [j \in DOMAIN pred.bounds |-> HirBound(pred.bounds[j], i, j)]])
      [] OTHER ->
           Do([hir_id \in {LowerNodeId(c, Nid("eq", pos, i))} |->
               Ret(hir_id.c, [kind |-> "Eq", hir_id |-> hir_id.v, hr |-> FALSE,
                              bounds |-> <<>>])])

RECURSIVE LowerWhereClause(_, _, _, _)
\* lower_where_clause: every predicate, in order
LowerWhereClause(c, preds, pos, i) ==
    IF c.fault # "none" \/ i > Len(preds) THEN Ret(c, <<>>)
    ELSE Do([p \in {LowerWherePredicate(c, preds[i], pos, i)} |->
         Do([rest \in {LowerWhereClause(p.c, preds, pos, i + 1)} |->
             Ret(rest.c, <<p.v>> \o rest.v)])])

\* lower_generics_mut (and lower_generics, which only freezes its result)
LowerGenerics(c, generics, pos) ==
    IF c.fault # "none" THEN Ret(c, NoGenerics)
    ELSE Do([collected \in {CollectPreds(c, <<>>, generics, pos, 1)} |->
         Do([params \in {LowerGenericParamsMut(collected.c, generics.params, collected.v,
                                               pos, 1)} |->
         Do([where_clause \in {LowerWhereClause(params.c, generics.preds, pos, 1)} |->
             Ret(where_clause.c, [params |-> params.v, where_clause |-> where_clause.v])])])])

(***************************************************************************)
(* Surface items.  The item (or member, or foreign item) at position pos   *)
(* has id ItemNid(pos); its j-th child is at pos \o <<j>>.  The children   *)
(* (`kids`) of a module are its items, of a trait or impl its members, of  *)
(* a foreign block its foreign items.  `lts` of an impl are the lifetimes  *)
(* its header (trait reference and self type) names, in order.             *)
(***************************************************************************)
NoTree == UseTree("none", "plain", {}, <<>>)

\* an item of the given kind with nothing written in it
BaseItem(kind) ==
    [kind |-> kind, vis |-> "Inherited", tree |-> NoTree,
     generics |-> [params |-> <<>>, preds |-> <<>>],
     of_trait |-> FALSE, lts |-> <<>>, kids |-> <<>>,
     loaded |-> TRUE, macro_rules |-> TRUE, attrs |-> <<>>,
     ext |-> "None", abi |-> "none", asyncness |-> FALSE, params |-> <<>>, body |-> TRUE]

UseItem(vis, tree) == [BaseItem("Use") EXCEPT !.vis = vis, !.tree = tree]

StructItem(generics) == [BaseItem("Struct") EXCEPT !.generics = generics]

Visibilities == {"Public", "Crate", "Inherited", "Restricted"}

LifetimesOf(params) ==
    LET idx == SelectIdx([k \in DOMAIN params |-> params[k].kind], {"Lifetime"})
    IN [n \in DOMAIN idx |-> params[idx[n]].name]

(***************************************************************************)
(* Item ids of a module (lower_mod, lower_item_id).                        *)
(***************************************************************************)
\* only the children of a group are listed
LowerItemIdUseTreeShallow(tree, pos) == [j \in DOMAIN tree.kids |-> ItemNid(pos \o <<j>>)]

RECURSIVE LowerItemIdUseTree(_, _), LowerItemIdUseForest(_, _, _)
\* lower_item_id_use_tree: the node ids below a use tree that become items
LowerItemIdUseTree(tree, pos) ==
    CASE tree.kind = "Nested" -> LowerItemIdUseForest(tree.kids, pos, 1)
      [] tree.kind = "Glob" -> <<>>
      [] OTHER ->
           LET pairs == ExtraResolutions(ExpectFullResFromUse(tree, pos), pos)
           IN [i \in DOMAIN pairs |-> pairs[i].id]

LowerItemIdUseForest(trees, pos, j) ==
    IF j > Len(trees) THEN <<>>
    ELSE <<ItemNid(pos \o <<j>>)>> \o LowerItemIdUseTree(trees[j], pos \o <<j>>)
         \o LowerItemIdUseForest(trees, pos, j + 1)

\* a macro definition is listed like any other item
ItemNodeIdsListingMacros(item, pos) ==
    IF item.kind = "Use" THEN <<ItemNid(pos)>> \o LowerItemIdUseTree(item.tree, pos)
    ELSE <<ItemNid(pos)>>

\* the node ids one item contributes to its module's list
ItemNodeIds(item, pos) ==
    CASE item.kind = "Use" -> <<ItemNid(pos)>> \o LowerItemIdUseTree(item.tree, pos)
      [] item.kind = "MacroDef" -> <<>>
      [] OTHER -> <<ItemNid(pos)>>

RECURSIVE AllocateAll(_, _)
AllocateAll(c, node_ids) ==
    IF c.fault # "none" \/ node_ids = <<>> THEN Ret(c, <<>>)
    ELSE Do([h \in {AllocateHirIdCounter(c, Head(node_ids))} |->
         Do([def_id \in {ExpectOwner(h.c, h.v)} |->
         Do([rest \in {AllocateAll(def_id.c, Tail(node_ids))} |->
             Ret(rest.c, <<def_id.v>> \o rest.v)])])])

\* lower_item_id: the ItemIds of one item, each with its counter set up
LowerItemId(c, item, pos) == AllocateAll(c, ItemNodeIds(item, pos))

RECURSIVE LowerMod(_, _, _, _)
\* lower_mod: the ItemIds of the items j.. of the module at pos
LowerMod(c, items, pos, j) ==
    IF c.fault # "none" \/ j > Len(items) THEN Ret(c, <<>>)
    ELSE Do([ids \in {LowerItemId(c, items[j], pos \o <<j>>)} |->
         Do([rest \in {LowerMod(ids.c, items, pos, j + 1)} |->
             Ret(rest.c, ids.v \o rest.v)])])

(***************************************************************************)
(* In-band lifetimes (add_in_band_defs, collect_in_band_defs; lib.rs).     *)
(***************************************************************************)
\* the names with_in_scope_lifetime_defs brings into scope for a parameter list
InScopeNames(params) ==
    LET lts == LifetimesOf(params)
    IN [n \in DOMAIN lts |-> NormalizeToMacros20(lts[n])]

RECURSIVE CollectInBand(_, _)
\* maybe_collect_in_band_lifetime over the lifetimes a header or signature
\* names: one that is neither in scope nor collected yet is collected
CollectInBand(c, lts) ==
    IF c.fault # "none" \/ lts = <<>> THEN c
    ELSE LET name == NormalizeToMacros20(Head(lts))
             known == name \in Range(c.in_scope_lifetimes)
                      \/ name \in Range(c.lifetimes_to_define)
         IN CollectInBand(IF known THEN c
                          ELSE [c EXCEPT !.lifetimes_to_define = Append(@, name)],
                          Tail(lts))

RECURSIVE InBandParams(_, _)
\* lifetime_to_generic_param, for each collected lifetime
InBandParams(c, names) ==
    IF c.fault # "none" \/ names = <<>> THEN Ret(c, <<>>)
    ELSE Do([hir_id \in {NextId(c)} |->
         Do([rest \in {InBandParams(hir_id.c, Tail(names))} |->
             Ret(rest.c, <<[hir_id |-> hir_id.v, kind |-> "Lifetime", name |-> Head(names),
                            bounds |-> <<>>]>> \o rest.v)])])

\* the parameters ordered lifetimes first, otherwise as they were
SortParams(params) ==
    LET kinds == [k \in DOMAIN params |-> params[k].kind]
        order == SelectIdx(kinds, {"Lifetime"}) \o SelectIdx(kinds, {"Type"})
                 \o SelectIdx(kinds, {"Const"})
    IN [n \in DOMAIN order |-> params[order[n]]]

\* add_in_band_defs: the generics of the item at pos lowered, with the
\* lifetimes `lts` its header or signature names in scope or collected, and
\* the collected ones appended as parameters
AddInBandDefs(c, generics, pos, lts) ==
    IF c.fault # "none" THEN Ret(c, NoGenerics)
    ELSE IF c.lifetimes_to_define # <<>>
    THEN Ret(Panic(c, "lifetimes_to_define is not empty"), NoGenerics)
    ELSE Do([lowered \in {LowerGenerics(InScopeEnter(c, InScopeNames(generics.params)),
                                        generics, pos)} |->
         Do([c3 \in {CollectInBand(lowered.c, lts)} |->
         Do([in_band \in {InBandParams([c3 EXCEPT !.lifetimes_to_define = <<>>],
                                       c3.lifetimes_to_define)} |->
             Ret(InScopeExit(in_band.c, Len(c.in_scope_lifetimes)),
                 [params |-> SortParams(lowered.v.params \o in_band.v),
                  where_clause |-> lowered.v.where_clause])])])])

(***************************************************************************)
(* Function headers.  `ext` of a header is Extern::None, ::Implicit or      *)
(* ::Explicit; `abi` is the string written, of a header or foreign block,  *)
(* or "none".                                                              *)
(***************************************************************************)
\* the strings abi::lookup knows, as far as the inputs go
KnownAbis == {"C", "Rust"}

\* error_on_invalid_abi: E0703 at the span of the string, which the node
\* the string is written on stands for
ErrorOnInvalidAbi(c, nid) ==
    [c EXCEPT !.diagnostics = Append(@, [span |-> nid, msg |-> "invalid ABI"])]

\* an unknown string is taken for "C"
LowerAbiAsC(c, abi, nid) ==
    IF abi \in KnownAbis THEN Ret(c, abi) ELSE Ret(c, "C")

\* lower_abi
LowerAbi(c, abi, nid) ==
    IF abi \in KnownAbis THEN Ret(c, abi) ELSE Ret(ErrorOnInvalidAbi(c, nid), "Rust")

\* lower_extern (and so the abi of lower_fn_header)
LowerExtern(c, item, nid) ==
    CASE item.ext = "None" -> Ret(c, "Rust")
      [] item.ext = "Implicit" -> Ret(c, "C")
      [] OTHER -> LowerAbi(c, item.abi, nid)

(***************************************************************************)
(* Bodies.  The k-th parameter of the function at pos has id               *)
(* Nid("input", pos, k) and its pattern Nid("pat", pos, k); a pattern is   *)
(* given by its kind and, for a binding, its annotation.                   *)
(***************************************************************************)
Pat(kind, mode) == [kind |-> kind, mode |-> mode]

\* `x`, `mut x`, `ref x`, `ref mut x`, `_`, `(a, b)`
ParamPats ==
    {Pat("Binding", "Unannotated"), Pat("Binding", "Mutable"), Pat("Binding", "Ref"),
     Pat("Binding", "RefMut"), Pat("Wild", "none"), Pat("Tuple", "none")}

HirPat(kind, mode, ident, hir_id) ==
    [kind |-> kind, mode |-> mode, ident |-> ident, hir_id |-> hir_id]

\* an expression: Err, Block (with statements and a tail), DropTemps (with
\* a tail), Closure (with the body it owns) or Path (`from`: the binding)
HirExpr(kind, hir_id) ==
    [kind |-> kind, hir_id |-> hir_id, stmts |-> <<>>, tail |-> <<>>,
     body_id |-> NoHirId, from |-> NoHirId]

\* lower_pat, of the pattern of the k-th parameter
LowerPat(c, pat, pos, k) ==
    Do([hir_id \in {LowerNodeId(c, Nid("pat", pos, k))} |->
        Ret(hir_id.c, HirPat(pat.kind, pat.mode, Ident("x", pos \o <<k>>), hir_id.v))])

\* lower_param
LowerParam(c, pat, pos, k) ==
    Do([hir_id \in {LowerNodeId(c, Nid("input", pos, k))} |->
    Do([lowered \in {LowerPat(hir_id.c, pat, pos, k)} |->
        Ret(lowered.c, [hir_id |-> hir_id.v, pat |-> lowered.v])])])

RECURSIVE LowerParams(_, _, _, _)
\* `decl.inputs.iter().map(|x| this.lower_param(x))`, from the k-th on
LowerParams(c, params, pos, k) ==
    IF c.fault # "none" \/ k > Len(params) THEN Ret(c, <<>>)
    ELSE Do([q \in {LowerParam(c, params[k], pos, k)} |->
         Do([rest \in {LowerParams(q.c, params, pos, k + 1)} |->
             Ret(rest.c, <<q.v>> \o rest.v)])])

\* expr_err
ExprErr(c) == Do([hir_id \in {NextId(c)} |-> Ret(hir_id.c, HirExpr("Err", hir_id.v))])

\* lower_block_expr, of a body written as a block
LowerBlockExpr(c) == Do([hir_id \in {NextId(c)} |-> Ret(hir_id.c, HirExpr("Block", hir_id.v))])

\* a block is lowered where none is written
LowerBlockExprAlways(c, body) == LowerBlockExpr(c)

\* lower_block_expr_opt
LowerBlockExprOpt(c, body) == IF body THEN LowerBlockExpr(c) ELSE ExprErr(c)

\* record_body
RecordBody(c, params, value) ==
    Ret([c EXCEPT !.bodies = Put(@, value.hir_id,
                                 [generator_kind |-> c.generator_kind, params |-> params,
                                  value |-> value])],
        value.hir_id)

\* lower_body, entry: generator_kind and task_context are taken
LowerBodyEnter(c) == [c EXCEPT !.generator_kind = "None", !.task_context = "None"]

\* lower_body, exit: the body is recorded and the two come back
LowerBodyExit(c, old, params, value) ==
    Do([body_id \in {RecordBody(c, params, value)} |->
        Ret([body_id.c EXCEPT !.task_context = old.task_context,
                              !.generator_kind = old.generator_kind],
            body_id.v)])

\* lower_fn_body_block (lower_fn_body over lower_block_expr_opt)
LowerFnBodyBlock(c, item, pos) ==
    Do([params \in {LowerParams(LowerBodyEnter(c), item.params, pos, 1)} |->
    Do([value \in {LowerBlockExprOpt(params.c, item.body)} |->
        LowerBodyExit(value.c, c, params.v, value.v)])])

(***************************************************************************)
(* Bodies of async functions (lower_maybe_async_body).                     *)
(***************************************************************************)
\* pat_ident_binding_mode: a fresh binding pattern; pat_ident is the same
\* with BindingAnnotation::Unannotated
PatIdentBindingMode(c, ident, mode) ==
    Do([hir_id \in {NextId(c)} |->
        Ret(hir_id.c, HirPat("Binding", mode, ident, hir_id.v))])

\* expr_ident: a path to the binding `binding`
ExprIdent(c, ident, binding) ==
    Do([hir_id \in {NextId(c)} |->
        Ret(hir_id.c, [HirExpr("Path", hir_id.v) EXCEPT !.from = binding])])

\* stmt_let_pat, with LocalSource::AsyncFn
StmtLetPat(c, init, pat) ==
    Do([hir_id \in {NextId(c)} |->
        Ret(hir_id.c, [hir_id |-> hir_id.v, pat |-> pat, init |-> init, source |-> "AsyncFn"])])

\* expr_drop_temps
ExprDropTemps(c, expr) ==
    Do([hir_id \in {NextId(c)} |->
        Ret(hir_id.c, [HirExpr("DropTemps", hir_id.v) EXCEPT !.tail = <<expr>>])])

\* expr_block over block_all
ExprBlockAll(c, stmts, expr) ==
    Do([hir_id \in {NextId(c)} |->
        Ret(hir_id.c, [HirExpr("Block", hir_id.v) EXCEPT !.stmts = stmts, !.tail = <<expr>>])])

\* the name a parameter is declared under once its pattern moved into the
\* body; index counts from 0
ParamIdent(pat, index) ==
    CASE pat.kind = "Binding" -> pat.ident
      [] pat.kind = "Wild" -> Ident("_", <<>>)
      [] OTHER -> Ident("__arg", <<index>>)

\* every pattern is taken to be a simple ident
IsSimpleParameterAlways(pat) == TRUE

\* is_simple_parameter
IsSimpleParameter(pat) == pat.kind = "Binding" /\ pat.mode \in {"Unannotated", "Mutable"}

\* the statements of one parameter, given its lowered form and the pattern
\* declared in its place
CaptureStmts(c, parameter, ident, new_pat) ==
    IF IsSimpleParameter(parameter.pat)
    THEN Do([expr \in {ExprIdent(c, ident, new_pat.hir_id)} |->
         Do([stmt \in {StmtLetPat(expr.c, expr.v, parameter.pat)} |->
             Ret(stmt.c, <<stmt.v>>)])])
    ELSE Do([move_pat \in {PatIdentBindingMode(c, ident, "Mutable")} |->
         Do([move_expr \in {ExprIdent(move_pat.c, ident, new_pat.hir_id)} |->
         Do([move_stmt \in {StmtLetPat(move_expr.c, move_expr.v, move_pat.v)} |->
         Do([pattern_expr \in {ExprIdent(move_stmt.c, ident, move_pat.v.hir_id)} |->
         Do([pattern_stmt \in {StmtLetPat(pattern_expr.c, pattern_expr.v, parameter.pat)} |->
             Ret(pattern_stmt.c, <<move_stmt.v, pattern_stmt.v>>)])])])])])

RECURSIVE AsyncParams(_, _, _, _)
\* the loop over decl.inputs, from the k-th on: the parameters and the
\* statements it pushes
AsyncParams(c, params, pos, k) ==
    IF c.fault # "none" \/ k > Len(params)
    THEN Ret(c, [parameters |-> <<>>, statements |-> <<>>])
    ELSE Do([parameter \in {LowerParam(c, params[k], pos, k)} |->
         Do([ident \in {ParamIdent(parameter.v.pat, k - 1)} |->
         Do([new_pat \in {PatIdentBindingMode(parameter.c, ident, "Unannotated")} |->
         Do([stmts \in {CaptureStmts(new_pat.c, parameter.v, ident, new_pat.v)} |->
         Do([rest \in {AsyncParams(stmts.c, params, pos, k + 1)} |->
             Ret(rest.c,
                 [parameters |-> <<[hir_id |-> parameter.v.hir_id, pat |-> new_pat.v]>>
                                 \o rest.v.parameters,
                  statements |-> stmts.v \o rest.v.statements])])])])])])

\* the user's body is the tail of the block as it is
AsyncBlockUnwrapped(c, statements, body) ==
    Do([user_body \in {LowerBlockExprOpt(c, body)} |->
        ExprBlockAll(user_body.c, statements, user_body.v)])

\* the closure handed to make_async_expr: the block of the statements and
\* the user's body under drop-temps
AsyncBlock(c, statements, body) ==
    Do([user_body \in {LowerBlockExprOpt(c, body)} |->
    Do([dropped \in {ExprDropTemps(user_body.c, user_body.v)} |->
        ExprBlockAll(dropped.c, statements, dropped.v)])])

\* make_async_expr: the block becomes the body of a generator, and the
\* closure owning that body is the expression
MakeAsyncExpr(c, statements, body) ==
    Do([block \in {AsyncBlock([LowerBodyEnter(c) EXCEPT !.generator_kind = "Async"],
                               statements, body)} |->
        LowerBodyExit(block.c, c, <<>>, block.v)])

\* lower_maybe_async_body
LowerMaybeAsyncBody(c, item, pos) ==
    IF ~item.asyncness THEN LowerFnBodyBlock(c, item, pos)
    ELSE Do([loop \in {AsyncParams(LowerBodyEnter(c), item.params, pos, 1)} |->
         Do([async_expr \in {MakeAsyncExpr(loop.c, loop.v.statements, item.body)} |->
         Do([hir_id \in {NextId(async_expr.c)} |->
             LowerBodyExit(hir_id.c, c, loop.v.parameters,
                           [HirExpr("Closure", hir_id.v) EXCEPT !.body_id = async_expr.v])])])])

(***************************************************************************)
(* Member references, and the kinds of items (lower_item_kind).            *)
(***************************************************************************)
MemberRef(id, kind, vis) == [id |-> id, kind |-> kind, vis |-> vis]

\* lower_impl_item_ref, of the member at mpos
LowerImplItemRef(c, member, mpos) ==
    Do([hir_id \in {LowerNodeId(c, ItemNid(mpos))} |->
    Do([id \in {ExpectOwner(hir_id.c, hir_id.v)} |->
    Do([vis \in {LowerVisibility(id.c, member.vis, mpos, ItemNid(mpos))} |->
        IF member.kind = "MacCall"
        THEN Ret(Panic(vis.c, "not implemented"), MemberRef(id.v, member.kind, vis.v))
        ELSE Ret(vis.c, MemberRef(id.v, member.kind, vis.v))])])])

\* lower_trait_item_ref, of the member at mpos
LowerTraitItemRef(c, member, mpos) ==
    IF member.kind = "MacCall"
    THEN Ret(Panic(c, "not implemented"), MemberRef(NoHirId.owner, member.kind,
                                                    HirVis("Inherited", NoPath, NoHirId)))
    ELSE Do([hir_id \in {LowerNodeId(c, ItemNid(mpos))} |->
         Do([id \in {ExpectOwner(hir_id.c, hir_id.v)} |->
             Ret(id.c, MemberRef(id.v, member.kind,
                                 HirVis("Inherited", NoPath, NoHirId)))])])

\* lower_foreign_item_ref, of the foreign item at mpos
LowerForeignItemRef(c, member, mpos) ==
    Do([hir_id \in {LowerNodeId(c, ItemNid(mpos))} |->
    Do([id \in {ExpectOwner(hir_id.c, hir_id.v)} |->
    Do([vis \in {LowerVisibility(id.c, member.vis, mpos, ItemNid(mpos))} |->
        Ret(vis.c, MemberRef(id.v, member.kind, vis.v))])])])

\* no member is referenced
LowerMemberRefsSkipping(c, members, pos, j, ctxt) == Ret(c, <<>>)

RECURSIVE LowerMemberRefs(_, _, _, _, _)
\* `items.iter().map(|item| self.lower_.._item_ref(item))`: the references to
\* the members j.. of the item at pos, in order
LowerMemberRefs(c, members, pos, j, ctxt) ==
    IF j > Len(members) \/ c.fault # "none" THEN Ret(c, <<>>)
    ELSE Do([r \in {CASE ctxt = "Impl" -> LowerImplItemRef(c, members[j], pos \o <<j>>)
                      [] ctxt = "Trait" -> LowerTraitItemRef(c, members[j], pos \o <<j>>)
                      [] OTHER -> LowerForeignItemRef(c, members[j], pos \o <<j>>)} |->
         Do([rest \in {LowerMemberRefs(r.c, members, pos, j + 1, ctxt)} |->
             Ret(rest.c, <<r.v>> \o rest.v)])])

\* lower_variant_data of a unit struct: the constructor gets an id
LowerVariantData(c, pos) == LowerNodeId(c, Nid("ctor", pos, 0))

\* lower_item_kind: the kind of the item at pos, with the visibility and the
\* name as the call leaves them
LowerItemKind(c, item, pos, hir_id, ident, vis) ==
    CASE c.fault # "none" ->
           [c |-> c, vis |-> vis, ident |-> ident, kind |-> HirKind("none")]
      [] item.kind = "Use" ->
           LowerUseTree(c, item.tree, pos, <<>>, vis, ident)
      [] item.kind = "Struct" ->
           Do([struct_def \in {LowerVariantData(c, pos)} |->
           Do([generics \in {LowerGenerics(struct_def.c, item.generics, pos)} |->
               [c |-> generics.c, vis |-> vis, ident |-> ident,
                kind |-> [HirKind("Struct") EXCEPT !.ctor = struct_def.v,
                                                   !.generics = generics.v]]])])
      [] item.kind = "Mod" ->
           IF item.loaded
           THEN Do([ids \in {LowerMod(c, item.kids, pos, 1)} |->
                    [c |-> ids.c, vis |-> vis, ident |-> ident,
                     kind |-> [HirKind("Mod") EXCEPT !.item_ids = ids.v]]])
           ELSE [c |-> Panic(c, "mod items should have been loaded by now"),
                 vis |-> vis, ident |-> ident, kind |-> HirKind("Mod")]
      [] item.kind = "Fn" ->
           Do([body_id \in {LowerMaybeAsyncBody(c, item, pos)} |->
           Do([generics \in {AddInBandDefs(body_id.c, item.generics, pos, item.lts)} |->
           Do([abi \in {LowerExtern(generics.c, item, Nid("abi", pos, 0))} |->
               [c |-> abi.c, vis |-> vis, ident |-> ident,
                kind |-> [HirKind("Fn") EXCEPT !.generics = generics.v, !.abi = abi.v,
                                               !.body_id = body_id.v]]])])])
      [] item.kind = "ForeignMod" ->
           Do([abi \in {IF item.abi = "none" THEN Ret(c, "C")
                        ELSE LowerAbi(c, item.abi, Nid("abi", pos, 0))} |->
           Do([refs \in {LowerMemberRefs(abi.c, item.kids, pos, 1, "Foreign")} |->
               [c |-> refs.c, vis |-> vis, ident |-> ident,
                kind |-> [HirKind("ForeignMod") EXCEPT !.refs = refs.v, !.abi = abi.v]]])])
      [] item.kind = "Impl" ->
           Do([lowered_trait_def_id \in {ExpectOwner(c, hir_id)} |->
           Do([generics \in {AddInBandDefs(lowered_trait_def_id.c, item.generics, pos,
                                           item.lts)} |->
           Do([refs \in {LowerMemberRefs(InScopeEnter(generics.c,
                                                      InScopeNames(item.generics.params)),
                                         item.kids, pos, 1, "Impl")} |->
               [c |-> InScopeExit(refs.c, Len(generics.c.in_scope_lifetimes)),
                vis |-> vis, ident |-> ident,
                kind |-> [HirKind("Impl") EXCEPT !.generics = generics.v, !.refs = refs.v,
                                                 !.of_trait = item.of_trait]]])])])
      [] item.kind = "Trait" ->
           Do([refs \in {LowerMemberRefs(c, item.kids, pos, 1, "Trait")} |->
           Do([generics \in {LowerGenerics(refs.c, item.generics, pos)} |->
               [c |-> generics.c, vis |-> vis, ident |-> ident,
                kind |-> [HirKind("Trait") EXCEPT !.generics = generics.v,
                                                  !.refs = refs.v]]])])
      [] OTHER ->
           [c |-> Panic(c, "TyMac should have been expanded by now"),
            vis |-> vis, ident |-> ident, kind |-> HirKind(item.kind)]

(***************************************************************************)
(* Items and members (lower_item, lower_trait_item, lower_impl_item,       *)
(* lower_foreign_item).                                                    *)
(***************************************************************************)
ItemIdent(pos) == Ident("item", pos)

NoItem == HirItem(NoHirId.owner, ItemIdent(<<>>), HirKind("none"),
                  HirVis("Inherited", NoPath, NoHirId))

\* nothing is pushed
PushNone(log, xs) == log

RECURSIVE PushAll(_, _)
\* `extend`: the elements of xs are pushed in order
PushAll(log, xs) == IF xs = <<>> THEN log ELSE PushAll(Append(log, Head(xs)), Tail(xs))

\* lower_item: the lowered item, or none for a macro definition, which goes
\* to the exported macros or leaves its attributes behind
LowerItem(c, item, pos) ==
    IF c.fault # "none" THEN [c |-> c, some |-> FALSE, item |-> NoItem]
    ELSE Do([vis \in {LowerVisibility(c, item.vis, pos, NoExplicitOwner)} |->
         IF item.kind = "MacroDef"
         THEN IF ~item.macro_rules \/ "macro_export" \in Range(item.attrs)
              THEN Do([hir_id \in {LowerNodeId(vis.c, ItemNid(pos))} |->
                   Do([def_id \in {ExpectOwner(hir_id.c, hir_id.v)} |->
                       [c |-> [def_id.c EXCEPT !.exported_macros =
                                  Append(@, [ident |-> ItemIdent(pos), vis |-> vis.v,
                                             def_id |-> def_id.v])],
                        some |-> FALSE, item |-> NoItem]])])
              ELSE [c |-> [vis.c EXCEPT !.non_exported_macro_attrs = PushAll(@, item.attrs)],
                    some |-> FALSE, item |-> NoItem]
         ELSE Do([hir_id \in {LowerNodeId(vis.c, ItemNid(pos))} |->
              Do([k \in {LowerItemKind(hir_id.c, item, pos, hir_id.v, ItemIdent(pos),
                                       vis.v)} |->
              Do([owner \in {ExpectOwner(k.c, hir_id.v)} |->
                  [c |-> owner.c, some |-> TRUE,
                   item |-> HirItem(owner.v, k.ident, k.kind, k.vis)]])])])])

HirMember(def_id, kind, generics, vis, impl_trait_return_allow) ==
    [def_id |-> def_id, kind |-> kind, generics |-> generics, vis |-> vis,
     impl_trait_return_allow |-> impl_trait_return_allow,
     abi |-> "none", body_id |-> NoHirId]

\* lower_fn_header, for the method of a trait or an impl (lower_method_sig
\* lowers it ahead of the generics)
LowerMethodHeader(c, member, mpos) ==
    IF c.fault = "none" /\ member.kind = "Fn"
    THEN LowerExtern(c, member, Nid("abi", mpos, 0))
    ELSE Ret(c, "none")

\* the lifetimes of a method's signature are collected, and left collected
LowerMemberGenericsCollecting(c, member, mpos) ==
    Ret(CollectInBand(c, member.lts), NoGenerics)

\* the generics of a member: a method's come from lower_method_sig, an
\* associated type's from lower_generics, an associated constant has none
LowerMemberGenerics(c, member, mpos) ==
    CASE c.fault # "none" -> Ret(c, NoGenerics)
      [] member.kind = "Fn" -> AddInBandDefs(c, member.generics, mpos, member.lts)
      [] member.kind = "TyAlias" -> LowerGenerics(c, member.generics, mpos)
      [] member.kind = "Const" -> Ret(c, NoGenerics)
      [] OTHER -> Ret(Panic(c, "macro item shouldn't exist at this point"), NoGenerics)

\* lower_trait_item: a method with a body is TraitFn::Provided, lowered by
\* lower_fn_body_block; one without is TraitFn::Required and has no body
LowerTraitItem(c, member, mpos) ==
    Do([hir_id \in {LowerNodeId(c, ItemNid(mpos))} |->
    Do([def_id \in {ExpectOwner(hir_id.c, hir_id.v)} |->
    Do([body_id \in {IF member.kind = "Fn" /\ member.body
                     THEN LowerFnBodyBlock(def_id.c, member, mpos)
                     ELSE Ret(def_id.c, NoHirId)} |->
    Do([abi \in {LowerMethodHeader(body_id.c, member, mpos)} |->
    Do([generics \in {LowerMemberGenerics(abi.c, member, mpos)} |->
        Ret(generics.c,
            [HirMember(def_id.v, member.kind, generics.v,
                       HirVis("Inherited", NoPath, NoHirId), FALSE)
                EXCEPT !.abi = abi.v, !.body_id = body_id.v])])])])])])

\* lower_impl_item
LowerImplItem(c, member, mpos) ==
    Do([body_id \in {IF member.kind = "Fn" THEN LowerMaybeAsyncBody(c, member, mpos)
                     ELSE Ret(c, NoHirId)} |->
    Do([abi \in {LowerMethodHeader(body_id.c, member, mpos)} |->
    Do([generics \in {LowerMemberGenerics(abi.c, member, mpos)} |->
    Do([hir_id \in {LowerNodeId(generics.c, ItemNid(mpos))} |->
    Do([def_id \in {ExpectOwner(hir_id.c, hir_id.v)} |->
    Do([vis \in {LowerVisibility(def_id.c, member.vis, mpos, NoExplicitOwner)} |->
        Ret(vis.c,
            [HirMember(def_id.v, member.kind, generics.v, vis.v,
                       member.kind = "Fn" /\ ~c.is_in_trait_impl)
                EXCEPT !.abi = abi.v, !.body_id = body_id.v])])])])])])])

\* lower_foreign_item
LowerForeignItem(c, member, mpos) ==
    Do([hir_id \in {LowerNodeId(c, ItemNid(mpos))} |->
    Do([def_id \in {ExpectOwner(hir_id.c, hir_id.v)} |->
    Do([generics \in {IF member.kind = "Fn"
                      THEN AddInBandDefs(def_id.c, member.generics, mpos, member.lts)
                      ELSE IF member.kind = "MacCall"
                      THEN Ret(Panic(def_id.c, "macro shouldn't exist here"), NoGenerics)
                      ELSE Ret(def_id.c, NoGenerics)} |->
    Do([vis \in {LowerVisibility(generics.c, member.vis, mpos, NoExplicitOwner)} |->
        Ret(vis.c, HirMember(def_id.v, member.kind, generics.v, vis.v, FALSE))])])])])

\* `lctx.<table>.insert(id, hir_item)` and the current module's set of them
InsertMember(c, table, m) ==
    IF c.fault # "none" THEN c
    ELSE LET cm == c.current_module
             old == IF cm \in DOMAIN c.modules THEN c.modules[cm] ELSE EmptyModule
         IN CASE table = "trait_items" ->
                   [c EXCEPT !.trait_items = Put(@, m.def_id, m),
                             !.trait_item_log = Append(@, m.def_id),
                             !.modules = Put(@, cm, [old EXCEPT !.trait_items = @ \cup {m.def_id}])]
              [] table = "impl_items" ->
                   [c EXCEPT !.impl_items = Put(@, m.def_id, m),
                             !.impl_item_log = Append(@, m.def_id),
                             !.modules = Put(@, cm, [old EXCEPT !.impl_items = @ \cup {m.def_id}])]
              [] OTHER ->
                   [c EXCEPT !.foreign_items = Put(@, m.def_id, m),
                             !.modules = Put(@, cm, [old EXCEPT !.foreign_items = @ \cup {m.def_id}])]

(***************************************************************************)
(* The pass before the ItemLowerer (lower_crate, lib.rs): the crate root   *)
(* gets the first HirId, and every item, member, foreign item and node of  *)
(* a use tree that can become an item gets its counter.                    *)
(***************************************************************************)
RECURSIVE UseTreeOwnerIds(_, _), UseForestOwnerIds(_, _, _)
UseTreeOwnerIds(tree, pos) ==
    CASE tree.kind = "Simple" -> <<Nid("ns", pos, 1), Nid("ns", pos, 2)>>
      [] tree.kind = "Nested" -> UseForestOwnerIds(tree.kids, pos, 1)
      [] OTHER -> <<>>

UseForestOwnerIds(trees, pos, j) ==
    IF j > Len(trees) THEN <<>>
    ELSE <<ItemNid(pos \o <<j>>)>> \o UseTreeOwnerIds(trees[j], pos \o <<j>>)
         \o UseForestOwnerIds(trees, pos, j + 1)

RECURSIVE OwnerIds(_, _, _)
\* the owners among the nodes j.. of the list at pos, and below them
OwnerIds(nodes, pos, j) ==
    IF j > Len(nodes) THEN <<>>
    ELSE <<ItemNid(pos \o <<j>>)>>
         \o (IF nodes[j].kind = "Use" THEN UseTreeOwnerIds(nodes[j].tree, pos \o <<j>>)
             ELSE <<>>)
         \o OwnerIds(nodes[j].kids, pos \o <<j>>, 1)
         \o OwnerIds(nodes, pos, j + 1)

MiscCollect(items) ==
    AllocateAll(LowerNodeId(NewContext, CRATE_NODE_ID).c, OwnerIds(items, <<>>, 1)).c

(***************************************************************************)
(* Scopes of the in-scope lifetimes around an item.                        *)
(***************************************************************************)
\* the list is not set aside
WithoutInScopeEnterKeeping(c) == c

\* without_in_scope_lifetime_defs, entry: the list is set aside; the
\* transient list must be empty between items
WithoutInScopeEnter(c) ==
    LET c1 == [c EXCEPT !.in_scope_lifetimes = <<>>]
    IN IF c.lifetimes_to_define # <<>> THEN Panic(c1, "lifetimes_to_define is not empty")
       ELSE c1

\* without_in_scope_lifetime_defs, exit: the list must be empty again, and
\* the one set aside comes back
WithoutInScopeExit(c, old_in_scope_lifetimes) ==
    IF c.fault # "none" THEN c
    ELSE IF c.in_scope_lifetimes # <<>> THEN Panic(c, "in_scope_lifetimes is not empty")
    ELSE [c EXCEPT !.in_scope_lifetimes = old_in_scope_lifetimes]

\* no lifetime of the parent comes into scope
ParentLifetimeDefsNone(c, parent_hir_id) == <<>>

\* every parameter of the parent comes into scope, whatever its kind
ParentLifetimeDefsAll(c, parent_hir_id) ==
    LET kind == c.items[parent_hir_id].kind
        params == IF kind.k \in {"Impl", "Trait"} THEN kind.generics.params ELSE <<>>
    IN [n \in DOMAIN params |-> NormalizeToMacros20(params[n].name)]

\* with_parent_item_lifetime_defs: the names of the lifetime parameters of
\* the lowered generics of a trait or impl; nothing for any other item
ParentLifetimeDefs(c, parent_hir_id) ==
    LET kind == c.items[parent_hir_id].kind
        params == IF kind.k \in {"Impl", "Trait"} THEN kind.generics.params ELSE <<>>
        idx == SelectIdx([k \in DOMAIN params |-> params[k].kind], {"Lifetime"})
    IN [n \in DOMAIN idx |-> NormalizeToMacros20(params[idx[n]].name)]

\* the list left as the children grew it
TruncateInScopeNever(c, old_len) == c

\* `self.in_scope_lifetimes.truncate(old_len)`
TruncateInScope(c, old_len) ==
    [c EXCEPT !.in_scope_lifetimes = SubSeq(@, 1, old_len)]

(***************************************************************************)
(* The ItemLowerer.  A frame is one call of a visit_* handler that is      *)
(* walking the children of its node; `next` is the child it visits next.   *)
(***************************************************************************)
Frame(kind, node, pos) ==
    [kind |-> kind, node |-> node, pos |-> pos, next |-> 1,
     old_len |-> 0, entry |-> <<>>,
     old_current_module |-> LocalDefId(CRATE_NODE_ID), old_is_in_trait_impl |-> FALSE]

\* the items written in the body of a foreign function are visited too
ChildRoleForeignBodies(frame) ==
    CASE frame.kind = "crate" -> "item"
      [] frame.kind = "item" /\ frame.node.kind = "Mod" -> "item"
      [] frame.kind = "item" /\ frame.node.kind \in {"Impl", "Trait"} -> "assoc"
      [] frame.kind = "item" /\ frame.node.kind = "ForeignMod" -> "foreign"
      [] OTHER -> "item"

\* which handler the walk calls for the children of a frame's node; visit_fn
\* keeps the walk out of the body of a foreign function
ChildRole(frame) ==
    CASE frame.kind = "crate" -> "item"
      [] frame.kind = "item" /\ frame.node.kind = "Mod" -> "item"
      [] frame.kind = "item" /\ frame.node.kind \in {"Impl", "Trait"} -> "assoc"
      [] frame.kind = "item" /\ frame.node.kind = "ForeignMod" -> "foreign"
      [] frame.kind = "assoc" -> "item"
      [] OTHER -> "none"

Running == stack # <<>> /\ lctx.fault = "none"

HasNext(role) ==
    /\ Running
    /\ Last(stack).next <= Len(Last(stack).node.kids)
    /\ ChildRole(Last(stack)) = role

\* the walk of the top frame's node has no child left to visit
WalkDone ==
    IF ChildRole(Last(stack)) = "none" THEN TRUE
    ELSE Last(stack).next > Len(Last(stack).node.kids)

NextPos == Last(stack).pos \o <<Last(stack).next>>

NextNode == Last(stack).node.kids[Last(stack).next]

Advance(st) == [st EXCEPT ![Len(st)].next = @ + 1]

Visit(pos, entry, exit) == [pos |-> pos, entry |-> entry, exit |-> exit]

\* visit_item, its first half: the item is lowered and inserted under its
\* own owner, with no lifetimes in scope
LowerAndInsert(c, item, pos) ==
    Do([c0 \in {WithoutInScopeEnter(HirIdOwnerEnter(c, ItemNid(pos)))} |->
    Do([r \in {LowerItem(c0, item, pos)} |->
    Do([c1 \in {IF r.some THEN InsertItem(r.c, r.item) ELSE r.c} |->
        [c |-> HirIdOwnerExit(
                   WithoutInScopeExit(
                       [c1 EXCEPT !.lowerings =
                           Append(@, [pos |-> pos, start |-> c0.in_scope_lifetimes,
                                      finish |-> c1.in_scope_lifetimes])],
                       c.in_scope_lifetimes),
                   ItemNid(pos)),
         some |-> r.some, item_hir_id |-> r.item.def_id]])])])

\* every impl counts as the impl of a trait
EnterItemAsTraitImpl(c, item, item_hir_id) ==
    LET c1 == InScopeEnter(c, ParentLifetimeDefs(c, item_hir_id))
    IN CASE item.kind = "Mod" -> [c1 EXCEPT !.current_module = item_hir_id]
         [] item.kind = "Impl" -> [c1 EXCEPT !.is_in_trait_impl = TRUE]
         [] OTHER -> c1

\* a module does not become the current one
EnterItemKeepingModule(c, item, item_hir_id) ==
    LET c1 == InScopeEnter(c, ParentLifetimeDefs(c, item_hir_id))
    IN IF item.kind = "Impl" THEN [c1 EXCEPT !.is_in_trait_impl = item.of_trait] ELSE c1

\* visit_item, its second half up to the walk of the item's children: the
\* lifetimes of a trait or impl come into scope, a module becomes the
\* current one, an impl sets the trait-impl flag
EnterItem(c, item, item_hir_id) ==
    LET c1 == InScopeEnter(c, ParentLifetimeDefs(c, item_hir_id))
    IN CASE item.kind = "Mod" -> [c1 EXCEPT !.current_module = item_hir_id]
         [] item.kind = "Impl" -> [c1 EXCEPT !.is_in_trait_impl = item.of_trait]
         [] OTHER -> c1

\* visit_item, up to the walk of the item's children
VisitItem ==
    /\ HasNext("item")
    /\ \E r \in {LowerAndInsert(lctx, NextNode, NextPos)} :
          IF r.c.fault # "none" \/ ~r.some
          THEN /\ lctx' = r.c
               /\ stack' = Advance(stack)
               /\ trace' = IF r.c.fault = "none"
                           THEN Append(trace, Visit(NextPos, lctx.in_scope_lifetimes,
                                                    r.c.in_scope_lifetimes))
                           ELSE trace
          ELSE /\ lctx' = EnterItem(r.c, NextNode, r.item_hir_id)
               /\ stack' = Append(Advance(stack),
                     [Frame("item", NextNode, NextPos) EXCEPT
                         !.old_len = Len(r.c.in_scope_lifetimes),
                         !.entry = lctx.in_scope_lifetimes,
                         !.old_current_module = r.c.current_module,
                         !.old_is_in_trait_impl = r.c.is_in_trait_impl])
               /\ trace' = trace
    /\ UNCHANGED crate

\* visit_item, once the walk of the item's children has returned
LeaveItem ==
    /\ Running
    /\ Last(stack).kind = "item"
    /\ WalkDone
    /\ LET top == Last(stack)
           c1 == CASE top.node.kind = "Mod" ->
                        [lctx EXCEPT !.current_module = top.old_current_module]
                   [] top.node.kind = "Impl" ->
                        [lctx EXCEPT !.is_in_trait_impl = top.old_is_in_trait_impl]
                   [] OTHER -> lctx
           c2 == TruncateInScope(c1, top.old_len)
       IN /\ lctx' = c2
          /\ stack' = Front(stack)
          /\ trace' = Append(trace, Visit(top.pos, top.entry, c2.in_scope_lifetimes))
    /\ UNCHANGED crate

\* visit_assoc_item, up to the walk of the member's children
VisitAssocItem ==
    /\ HasNext("assoc")
    /\ \E r \in {IF Last(stack).node.kind = "Trait"
                 THEN LowerTraitItem(HirIdOwnerEnter(lctx, ItemNid(NextPos)), NextNode, NextPos)
                 ELSE LowerImplItem(HirIdOwnerEnter(lctx, ItemNid(NextPos)), NextNode,
                                    NextPos)} :
          /\ lctx' = HirIdOwnerExit(
                         InsertMember(r.c, IF Last(stack).node.kind = "Trait"
                                           THEN "trait_items" ELSE "impl_items", r.v),
                         ItemNid(NextPos))
          /\ stack' = Append(Advance(stack), Frame("assoc", NextNode, NextPos))
    /\ UNCHANGED <<crate, trace>>

\* visit_foreign_item, up to the walk of the foreign item
VisitForeignItem ==
    /\ HasNext("foreign")
    /\ \E r \in {LowerForeignItem(
                     HirIdOwnerEnter(AllocateHirIdCounter(lctx, ItemNid(NextPos)).c,
                                     ItemNid(NextPos)),
                     NextNode, NextPos)} :
          /\ lctx' = HirIdOwnerExit(InsertMember(r.c, "foreign_items", r.v), ItemNid(NextPos))
          /\ stack' = Append(Advance(stack), Frame("foreign", NextNode, NextPos))
    /\ UNCHANGED <<crate, trace>>

\* visit_assoc_item and visit_foreign_item, once the walk has returned
LeaveMember ==
    /\ Running
    /\ Last(stack).kind \in {"assoc", "foreign"}
    /\ WalkDone
    /\ stack' = Front(stack)
    /\ UNCHANGED <<crate, lctx, trace>>

\* walk_crate has visited every item of the crate
Finish ==
    /\ Running
    /\ Last(stack).kind = "crate"
    /\ Last(stack).next > Len(crate)
    /\ stack' = <<>>
    /\ UNCHANGED <<crate, lctx, trace>>

Done == stack = <<>> /\ lctx.fault = "none"

(***************************************************************************)
(* Specifications.  Each draws the crate from one family of inputs.        *)
(***************************************************************************)
InitWith(crates) ==
    /\ crate \in crates
    /\ lctx = MiscCollect(crate)
    /\ stack = <<Frame("crate", [BaseItem("crate") EXCEPT !.kids = crate], <<>>)>>
    /\ trace = <<>>

\* a unit struct followed by one `use` item, or a `use` item of a single
\* node with the struct after it
UseCrates ==
    {<<StructItem(Generics(<<>>, <<>>)), UseItem(v, t)>> : v \in Visibilities, t \in UseTrees}
    \cup {<<UseItem(v, t), StructItem(Generics(<<>>, <<>>))>> :
             v \in Visibilities, t \in UseTreesOfSize(1)}

\* one struct with generics
GenericsCrates == {<<StructItem(g)>> : g \in GenericsPool(<<1>>)}

\* the heads of impls: whether a trait is implemented, the parameters, and
\* the lifetimes the header names
ImplHeads ==
    {[of_trait |-> FALSE, params |-> <<>>, lts |-> <<>>],
     [of_trait |-> TRUE, params |-> <<LifetimeParam("'a")>>, lts |-> <<Name("'a", "root")>>],
     [of_trait |-> FALSE, params |-> <<LifetimeParam("'a"), TypeParam>>,
      lts |-> <<Name("'b", "root")>>]}

TraitHeads == {<<>>, <<LifetimeParam("'a")>>}

LeafItems ==
    {StructItem(Generics(<<>>, <<>>)),
     UseItem("Restricted", UseTree("Nested", "plain", {},
                                   <<UseTree("Simple", "plain", {"type", "value"}, <<>>)>>)),
     [BaseItem("MacroDef") EXCEPT !.attrs = <<"doc">>],
     [BaseItem("MacroDef") EXCEPT !.attrs = <<"macro_export">>]}

ForeignItems ==
    {[BaseItem("Fn") EXCEPT !.body = FALSE], [BaseItem("Static") EXCEPT !.vis = "Public"]}

RECURSIVE ItemsOfSize(_), ItemForestsOfSize(_), MembersOfSize(_), MemberForestsOfSize(_)
\* the items with exactly n nodes, members and foreign items counted
ItemsOfSize(n) ==
    (IF n = 1 THEN LeafItems ELSE {})
    \cup {[BaseItem("Mod") EXCEPT !.kids = f] : f \in ItemForestsOfSize(n - 1)}
    \cup {[BaseItem("Impl") EXCEPT !.of_trait = h.of_trait, !.lts = h.lts,
                                   !.generics = Generics(h.params, <<>>), !.kids = f] :
              h \in ImplHeads, f \in MemberForestsOfSize(n - 1)}
    \cup {[BaseItem("Trait") EXCEPT !.generics = Generics(ps, <<>>), !.kids = f] :
              ps \in TraitHeads, f \in MemberForestsOfSize(n - 1)}
    \cup {[BaseItem("ForeignMod") EXCEPT !.kids = f] :
              f \in {q \in SeqsUpTo(ForeignItems, n - 1) : Len(q) = n - 1}}

ItemForestsOfSize(n) ==
    IF n <= 0 THEN {<<>>}
    ELSE UNION {{<<t>> \o f : t \in ItemsOfSize(k), f \in ItemForestsOfSize(n - k)}
                : k \in 1..n}

\* the members with exactly n nodes: a method can have items in its body
MembersOfSize(n) ==
    (IF n = 1 THEN {BaseItem("Const"), BaseItem("TyAlias")} ELSE {})
    \cup {[BaseItem("Fn") EXCEPT !.vis = "Public", !.kids = f] :
              f \in ItemForestsOfSize(n - 1)}
    \cup {[BaseItem("Fn") EXCEPT !.generics = Generics(<<LifetimeParam("'m")>>, <<>>),
                                 !.lts = <<Name("'n", "root")>>, !.kids = f] :
              f \in ItemForestsOfSize(n - 1)}

MemberForestsOfSize(n) ==
    IF n <= 0 THEN {<<>>}
    ELSE UNION {{<<t>> \o f : t \in MembersOfSize(k), f \in MemberForestsOfSize(n - k)}
                : k \in 1..n}

\* one item, with everything below it
ItemCrates == {<<t>> : t \in UNION {ItemsOfSize(n) : n \in 1..MaxItemNodes}}

\* the most parameters a function of the inputs has
MaxParams == 2

\* a function: its header's extern and ABI string, whether it is async,
\* whether it has a body, and the patterns of its parameters
FnItem(ext, abi, asyncness, body, params) ==
    [BaseItem("Fn") EXCEPT !.ext = ext, !.abi = abi, !.asyncness = asyncness,
                           !.body = body, !.params = params]

\* what a header can say of its ABI: nothing, `extern`, `extern "C"`, and
\* `extern "stdcal"`, a string no ABI has
Externs ==
    {[ext |-> "None", abi |-> "none"], [ext |-> "Implicit", abi |-> "none"],
     [ext |-> "Explicit", abi |-> "C"], [ext |-> "Explicit", abi |-> "stdcal"]}

\* the functions of foreign blocks: without a body, with one, and with one
\* that holds an item
ForeignFns ==
    {FnItem("None", "none", FALSE, FALSE, <<>>), FnItem("None", "none", FALSE, TRUE, <<>>),
     [FnItem("None", "none", FALSE, TRUE, <<>>) EXCEPT !.kids = <<StructItem(Generics(<<>>, <<>>))>>]}

\* items with an ABI somewhere: functions, foreign blocks of one function,
\* and an impl and a trait of one method
AbiItems ==
    {FnItem(e.ext, e.abi, FALSE, TRUE, <<>>) : e \in Externs}
    \cup {[BaseItem("ForeignMod") EXCEPT !.abi = a, !.kids = <<f>>] :
             a \in {"none", "C", "stdcal"}, f \in ForeignFns}
    \cup {[BaseItem(k) EXCEPT !.kids = <<FnItem(e.ext, e.abi, FALSE, TRUE, <<>>)>>] :
             k \in {"Impl", "Trait"}, e \in {x \in Externs : x.ext = "Explicit"}}

\* one function, async or not, with a body or not, of up to MaxParams
\* parameters; an impl or a trait whose one method is such a function of
\* at most one parameter; or two items with an ABI
FnCrates ==
    {<<FnItem("None", "none", a, b, ps)>> :
        a \in BOOLEAN, b \in BOOLEAN, ps \in SeqsUpTo(ParamPats, MaxParams)}
    \cup {<<[BaseItem(k) EXCEPT !.kids = <<FnItem("None", "none", a, b, ps)>>]>> :
             k \in {"Impl", "Trait"}, a \in BOOLEAN, b \in BOOLEAN,
             ps \in SeqsUpTo(ParamPats, 1)}
    \cup {<<x, y>> : x \in AbiItems, y \in AbiItems}

\* an impl of a trait for a type with a lifetime, with the given members
TraitImpl(members) ==
    [BaseItem("Impl") EXCEPT !.of_trait = TRUE, !.lts = <<Name("'a", "root")>>,
                             !.generics = Generics(<<LifetimeParam("'a")>>, <<>>),
                             !.kids = members]

\* items the lowering is not meant to meet: a macro invocation, a module
\* that was not loaded, and a macro invocation among the members of a
\* trait, of an impl or of a foreign block
UnexpectedItems ==
    {BaseItem("MacCall"), [BaseItem("Mod") EXCEPT !.loaded = FALSE]}
    \cup {[BaseItem(k) EXCEPT !.kids = ms] :
             k \in {"Trait", "Impl", "ForeignMod"},
             ms \in {<<BaseItem("MacCall")>>,
                     <<[BaseItem("Fn") EXCEPT !.body = FALSE], BaseItem("MacCall")>>}}

\* items it is meant to meet
ExpectedItems ==
    {StructItem(Generics(<<>>, <<>>)), TraitImpl(<<BaseItem("Fn")>>),
     [BaseItem("ForeignMod") EXCEPT !.kids = <<[BaseItem("Fn") EXCEPT !.body = FALSE]>>]}

\* two items; or one item, alone, in a module, or in the body of a method
\* of an impl of a trait
FaultCrates ==
    {<<x, y>> : x \in ExpectedItems \cup UnexpectedItems,
                y \in ExpectedItems \cup UnexpectedItems}
    \cup UNION {{<<[BaseItem("Mod") EXCEPT !.kids = <<x>>]>>,
                 <<[BaseItem("Mod") EXCEPT !.kids = <<StructItem(Generics(<<>>, <<>>)), x>>]>>,
                 <<TraitImpl(<<[BaseItem("Fn") EXCEPT !.kids = <<x>>]>>)>>} :
                x \in ExpectedItems \cup UnexpectedItems}

\* a method of visibility vis whose signature names the lifetimes lts and
\* whose body holds the items kids
Method(vis, lts, kids) ==
    [BaseItem("Fn") EXCEPT !.generics = Generics(<<LifetimeParam("'m")>>, <<>>),
                           !.vis = vis, !.lts = lts, !.kids = kids]

\* `impl<'a> Tr<'b> for S<'a>`, `impl<'c, T> S<'c, T>` and `trait Tr<'a, T>`
\* around the members
Parents(members) ==
    {[BaseItem("Impl") EXCEPT !.of_trait = TRUE, !.kids = members,
                              !.generics = Generics(<<LifetimeParam("'a")>>, <<>>),
                              !.lts = <<Name("'a", "root"), Name("'b", "root")>>],
     [BaseItem("Impl") EXCEPT !.kids = members,
                              !.generics = Generics(<<LifetimeParam("'c"), TypeParam>>, <<>>)],
     [BaseItem("Trait") EXCEPT !.kids = members,
                               !.generics = Generics(<<LifetimeParam("'a"), TypeParam>>, <<>>)]}

\* the items of xs, each inside a module or inside the body of the one
\* method of an impl or trait, a method whose signature names 'b or a
\* `pub(in path)` one whose signature names 'a and 'n
Inside(xs) ==
    UNION {{[BaseItem("Mod") EXCEPT !.kids = kids]}
           \cup Parents(<<Method("Inherited", <<Name("'b", "root")>>, kids)>>)
           \cup Parents(<<Method("Restricted", <<Name("'a", "root"), Name("'n", "semi")>>, kids)>>) :
           kids \in {<<x>> : x \in xs}}

\* a struct, a foreign block, an empty module, and an impl or trait whose
\* method has nothing in its body
Innermost0 ==
    {StructItem(Generics(<<>>, <<>>)),
     [BaseItem("ForeignMod") EXCEPT !.kids = <<[BaseItem("Fn") EXCEPT !.body = FALSE]>>],
     BaseItem("Mod")}
    \cup Parents(<<Method("Inherited", <<Name("'b", "root")>>, <<>>)>>)
    \cup Parents(<<Method("Restricted", <<Name("'a", "root"), Name("'n", "semi")>>, <<>>)>>)

\* one item, with up to two modules, impls or traits around it
ScopeCrates ==
    {<<t>> : t \in Innermost0 \cup Inside(Innermost0) \cup Inside(Inside(Innermost0))}

\* `mod m { use ..; struct S; }`, for every visibility and use tree
ModUseCrates ==
    {<<[BaseItem("Mod") EXCEPT !.kids = <<UseItem(v, t), StructItem(Generics(<<>>, <<>>))>>]>> :
        v \in Visibilities, t \in UseTrees}

\* `macro_rules!` definitions without and with the export attribute, a
\* `macro` definition, and a struct
MacroItems ==
    {[BaseItem("MacroDef") EXCEPT !.attrs = <<"doc", "inline">>],
     BaseItem("MacroDef"),
     [BaseItem("MacroDef") EXCEPT !.attrs = <<"macro_export", "doc">>],
     [BaseItem("MacroDef") EXCEPT !.macro_rules = FALSE, !.attrs = <<"doc">>],
     StructItem(Generics(<<>>, <<>>))}

\* a module of such items
MacroCrates ==
    {<<[BaseItem("Mod") EXCEPT !.kids = kids]>> : kids \in SeqsUpTo(MacroItems, MaxItemNodes)}

NextItems == VisitItem \/ LeaveItem \/ Finish

Next == VisitItem \/ LeaveItem \/ VisitAssocItem \/ VisitForeignItem \/ LeaveMember \/ Finish

Spec == InitWith(ItemCrates) /\ [][Next]_vars

SpecUse == InitWith(UseCrates) /\ [][NextItems]_vars

SpecGenerics == InitWith(GenericsCrates) /\ [][NextItems]_vars

SpecFn == InitWith(FnCrates) /\ [][Next]_vars

SpecFault == InitWith(FaultCrates) /\ [][Next]_vars

SpecScope == InitWith(ScopeCrates) /\ [][Next]_vars

SpecModUse == InitWith(ModUseCrates) /\ [][NextItems]_vars

SpecMacro == InitWith(MacroCrates) /\ [][NextItems]_vars

(***************************************************************************)
(* Properties.                                                             *)
(***************************************************************************)
\* the HirIds issued under an owner, in the order they were handed out
IssuedUnder(owner) == SelectSeq(lctx.issued, LAMBDA h : h.owner = owner)

\* every owner a HirId was ever issued under
Owners == {h.owner : h \in Range(lctx.issued)}

\* the HirIds a lowered visibility, generics, item or member carries
VisIds(vis) ==
    IF vis.node = "Restricted"
    THEN {vis.hir_id} \cup {seg.hir_id : seg \in Range(vis.path.segments)}
    ELSE {}

GenericsIds(g) ==
    ({p.hir_id : p \in Range(g.params)} \cup {w.hir_id : w \in Range(g.where_clause)})
    \ {NoHirId}

ItemIds(item) ==
    VisIds(item.vis) \cup GenericsIds(item.kind.generics)
    \cup {seg.hir_id : seg \in Range(item.kind.path.segments)}
    \cup ({item.kind.ctor} \ {NoHirId})

MemberIds(m) == VisIds(m.vis) \cup GenericsIds(m.generics)

\* every lowered record of the run: items, and members of the three tables
Records ==
    {[def_id |-> it.def_id, ids |-> ItemIds(it)] : it \in Range(lctx.items)}
    \cup {[def_id |-> m.def_id, ids |-> MemberIds(m)] :
             m \in Range(lctx.trait_items) \cup Range(lctx.impl_items)
                   \cup Range(lctx.foreign_items)}

\* C1: under every owner the HirIds issued are 0, 1, 2, .. in this order, with
\* no gap and no repeat, the owner's stored counter is their number once the
\* owner is closed, and the HirIds a lowered record carries are all issued
\* under the record's own owner, none under a sibling or an ancestor
C1_Density ==
    /\ \A o \in Owners :
          /\ \A i \in DOMAIN IssuedUnder(o) : IssuedUnder(o)[i].local_id = i - 1
          /\ o # LocalDefId(CRATE_NODE_ID) =>
                lctx.item_local_id_counters[o.def] = Len(IssuedUnder(o))
    /\ lctx.opened \subseteq Owners
    /\ \A r \in Records : \A h \in r.ids : h.owner = r.def_id /\ h \in Range(lctx.issued)

\* a finished run in which a module, a `use` item, a nested import and the
\* import synthesized for a second namespace were all owners, the last one
\* of three HirIds at least
C1_Witness ==
    /\ Done
    /\ Cardinality(lctx.opened) >= 4
    /\ \E o \in lctx.opened : o.def.tag = "ns" /\ Len(IssuedUnder(o)) >= 3

(***************************************************************************)
(* Import records.                                                         *)
(***************************************************************************)
RECURSIVE UseNodes(_, _)
\* the nodes of a written use tree, each with the position it is written at
UseNodes(tree, pos) ==
    {[pos |-> pos, tree |-> tree]}
    \cup UNION {UseNodes(tree.kids[j], pos \o <<j>>) : j \in DOMAIN tree.kids}

UseIdx == {i \in DOMAIN crate : crate[i].kind = "Use"}

WrittenUses == UNION {UseNodes(crate[i].tree, <<i>>) : i \in UseIdx}

ImportRecords == {it \in Range(lctx.items) : it.kind.k = "Use"}

HasRecord(nid) == LocalDefId(nid) \in DOMAIN lctx.items

RecordOf(nid) == lctx.items[LocalDefId(nid)]

PathIdents(path) == [k \in DOMAIN path.segments |-> path.segments[k].ident]

ExpectedUseKind(tree) ==
    CASE tree.kind = "Simple" -> "Single"
      [] tree.kind = "Glob" -> "Glob"
      [] OTHER -> "ListStem"

\* C2: when every simple leaf of the written use tree resolves in at most one
\* namespace, the finished run holds exactly one import record per node of
\* the tree, a Single for a simple leaf, a Glob for a glob leaf, a ListStem
\* for a nested group, at any depth; so `use m::{a, b}` gives 3 records,
\* `use m::a as c` gives 1 and `use m::*` gives 1 Glob
C2_FlatteningArithmetic ==
    (Done /\ \A n \in WrittenUses : n.tree.kind = "Simple" => Cardinality(n.tree.res) <= 1)
    => /\ Cardinality(ImportRecords) = Cardinality(WrittenUses)
       /\ \A n \in WrittenUses :
             /\ HasRecord(ItemNid(n.pos))
             /\ RecordOf(ItemNid(n.pos)).kind.k = "Use"
             /\ RecordOf(ItemNid(n.pos)).kind.use_kind = ExpectedUseKind(n.tree)

\* `use m::{a, b}`, each leaf in one namespace, has been lowered to three
\* import records: two Single and one ListStem
C2_Witness ==
    /\ Done
    /\ \E i \in UseIdx :
          crate[i].tree = UseTree("Nested", "plain", {},
                                  <<UseTree("Simple", "plain", {"value"}, <<>>),
                                    UseTree("Simple", "plain", {"type"}, <<>>)>>)
    /\ Cardinality(ImportRecords) = 3
    /\ Cardinality({r \in ImportRecords : r.kind.use_kind = "Single"}) = 2
    /\ Cardinality({r \in ImportRecords : r.kind.use_kind = "ListStem"}) = 1

\* C3: the ListStem record of every nested group is private (inherited) when
\* the `use` was written public, crate-visible or inherited, and under a
\* restricted visibility it stays restricted to the same path `p`; the
\* record of the outermost group carries the very visibility that was
\* lowered for the item
C3_VisibilityDemotion ==
    Done =>
      \A i \in UseIdx : \A n \in UseNodes(crate[i].tree, <<i>>) :
          n.tree.kind = "Nested" =>
            IF crate[i].vis \in {"Public", "Crate", "Inherited"}
            THEN RecordOf(ItemNid(n.pos)).vis = HirVis("Inherited", NoPath, NoHirId)
            ELSE /\ RecordOf(ItemNid(n.pos)).vis.node = "Restricted"
                 /\ PathIdents(RecordOf(ItemNid(n.pos)).vis.path) = <<Ident("p", <<i>>)>>
                 /\ RecordOf(ItemNid(n.pos)).vis.path.res
                      = [ns |-> "type", target |-> Nid("vis", <<i>>, 0)]
                 /\ n.pos = <<i>> =>
                      RecordOf(ItemNid(n.pos)).vis.hir_id
                        = lctx.node_id_to_hir_id[Nid("vis", <<i>>, 0)]

\* `pub use m::{a, b}` has been lowered: the ListStem record is private while
\* the record of a leaf is still public
C3_Witness ==
    /\ Done
    /\ \E i \in UseIdx :
          /\ crate[i].vis = "Public"
          /\ crate[i].tree.kind = "Nested"
          /\ Len(crate[i].tree.kids) = 2
          /\ RecordOf(ItemNid(<<i>>)).kind.use_kind = "ListStem"
          /\ RecordOf(ItemNid(<<i>>)).vis.node = "Inherited"
          /\ RecordOf(ItemNid(<<i, 1>>)).vis.node = "Public"

(***************************************************************************)
(* Optional bounds of where-clauses.                                       *)
(***************************************************************************)
StructIdx == {a \in DOMAIN crate : crate[a].kind = "Struct"}

BoundPreds(a) ==
    {i \in DOMAIN crate[a].generics.preds : crate[a].generics.preds[i].kind = "Bound"}

\* the positions of the optional bounds of predicate i of item a
OptionalBounds(a, i) ==
    {j \in DOMAIN crate[a].generics.preds[i].bounds :
         crate[a].generics.preds[i].bounds[j] = "Maybe"}

\* the type parameters of item a that the bounded type of its predicate i
\* names by a bare path of one segment
NamedOwnParams(a, i) ==
    {k \in DOMAIN crate[a].generics.params :
         /\ crate[a].generics.params[k].kind = "Type"
         /\ crate[a].generics.preds[i].ty
              = Ty("Path", 1, TyRes("TyParam", Nid("param", <<a>>, k)))}

LoweredGenerics(a) == RecordOf(ItemNid(<<a>>)).kind.generics

DiagnosticsAt(span) == {n \in DOMAIN lctx.diagnostics : lctx.diagnostics[n].span = span}

\* the optional bounds of predicate i of item a are on parameter k, after the
\* bounds k declares, the lowered where-clause holds no optional bound, and
\* no diagnostic points at the predicate
Relocated(a, i, k) ==
    /\ \A j \in OptionalBounds(a, i) :
          \E n \in DOMAIN LoweredGenerics(a).params[k].bounds :
              /\ n > Len(crate[a].generics.params[k].bounds)
              /\ LoweredGenerics(a).params[k].bounds[n] = HirBound("Maybe", i, j)
    /\ \A w \in Range(LoweredGenerics(a).where_clause) :
          \A b \in Range(w.bounds) : b.modifier # "Maybe"
    /\ DiagnosticsAt(Nid("ty", <<a>>, i)) = {}

\* C4 as stated: whenever the bounded type of a where-predicate is a bare
\* one-segment path resolving to a type parameter of the same list, its
\* optional bounds are appended to that parameter, none stays in the lowered
\* where-clause, and no diagnostic is reported for it
C4_AsStated ==
    Done => \A a \in StructIdx : \A i \in BoundPreds(a) : \A k \in NamedOwnParams(a, i) :
                Relocated(a, i, k)

\* C4: whenever the bounded type of a where-predicate without a `for<..>`
\* binder is a bare one-segment path resolving to a type parameter of the
\* same list, its optional bounds are appended to that parameter, none stays
\* in the lowered where-clause, and no diagnostic is reported for it
C4_BoundRelocation ==
    Done => \A a \in StructIdx : \A i \in BoundPreds(a) : \A k \in NamedOwnParams(a, i) :
                ~crate[a].generics.preds[i].hr => Relocated(a, i, k)

\* `struct S<'a, T> where T: Marker + ?Marker` has been lowered: T carries
\* the optional bound and nothing was reported
C4_Witness ==
    /\ Done
    /\ \E a \in StructIdx :
          /\ crate[a].generics = Generics(<<LifetimeParam("'a"), TypeParam>>,
                                           <<WherePred("Bound", OwnTy(<<a>>, 2), FALSE,
                                                       <<"None", "Maybe">>)>>)
          /\ LoweredGenerics(a).params[2].bounds = <<HirBound("Maybe", 1, 2)>>
          /\ LoweredGenerics(a).where_clause[1].bounds = <<HirBound("None", 1, 1)>>
    /\ lctx.diagnostics = <<>>

\* C5: for a where-predicate whose bounded type is not a bare one-segment
\* path to a type parameter of the same list, every optional bound gives
\* exactly one diagnostic, with the fixed message, at the span of the bounded
\* type, and is nowhere in the output: not in the lowered where-clause, not
\* among the bounds of any parameter
C5_IllegalOptionalBound ==
    Done => \A a \in StructIdx : \A i \in BoundPreds(a) :
        NamedOwnParams(a, i) = {} =>
          /\ Cardinality(DiagnosticsAt(Nid("ty", <<a>>, i))) = Cardinality(OptionalBounds(a, i))
          /\ \A n \in DiagnosticsAt(Nid("ty", <<a>>, i)) :
                lctx.diagnostics[n].msg = OptionalBoundMessage
          /\ \A j \in OptionalBounds(a, i) :
                /\ \A w \in Range(LoweredGenerics(a).where_clause) :
                      HirBound("Maybe", i, j) \notin Range(w.bounds)
                /\ \A q \in Range(LoweredGenerics(a).params) :
                      HirBound("Maybe", i, j) \notin Range(q.bounds)

\* `struct S<T, U: Marker> where S: ?Marker + ?Marker` has been lowered with
\* two diagnostics at the span of `S`, and no parameter got a bound
C5_Witness ==
    /\ Done
    /\ \E a \in StructIdx :
          /\ crate[a].generics = Generics(<<TypeParam, BoundedTypeParam>>,
                                           <<WherePred("Bound", StructTy, FALSE,
                                                       <<"Maybe", "Maybe">>)>>)
          /\ Cardinality(DiagnosticsAt(Nid("ty", <<a>>, 1))) = 2
          /\ LoweredGenerics(a).params[1].bounds = <<>>
          /\ LoweredGenerics(a).where_clause[1].bounds = <<>>

(***************************************************************************)
(* Scopes and member tables.                                               *)
(***************************************************************************)
\* C6: every visit of an item that has returned, the lowering of the item
\* and the walk of its children included, left the in-scope lifetimes as
\* they were immediately before the item was entered: same length, same
\* contents
C6_ScopeRestoration ==
    \A n \in DOMAIN trace :
        /\ Len(trace[n].exit) = Len(trace[n].entry)
        /\ trace[n].exit = trace[n].entry

\* an item nested in a member of a trait or impl was visited with lifetimes
\* in scope and returned, and then the visit of the enclosing item, which
\* had brought them into scope, returned with none in scope
C6_Witness ==
    /\ Done
    /\ \E n, m \in DOMAIN trace :
          /\ n < m
          /\ Len(trace[n].pos) > Len(trace[m].pos)
          /\ trace[n].entry # <<>>
          /\ trace[n].exit = trace[n].entry
          /\ trace[m].entry = <<>>
          /\ trace[m].exit = <<>>

\* the member ids among log that belong to the parent item at pos, in the
\* order they were inserted
MembersOf(log, pos) ==
    SelectSeq(log, LAMBDA d : Len(d.def.pos) = Len(pos) + 1 /\ Front(d.def.pos) = pos)

RefIds(item) == [j \in DOMAIN item.kind.refs |-> item.kind.refs[j].id]

\* C7: after the run, the ordered member ids in the reference list of every
\* trait are the ids inserted into trait_items for that trait, in insertion
\* order, and likewise for every impl and impl_items; every referenced
\* member has its full record in the table
C7_MemberTableAgreement ==
    Done =>
      \A it \in Range(lctx.items) :
          /\ it.kind.k = "Trait" =>
                /\ RefIds(it) = MembersOf(lctx.trait_item_log, it.def_id.def.pos)
                /\ Range(RefIds(it)) \subseteq DOMAIN lctx.trait_items
          /\ it.kind.k = "Impl" =>
                /\ RefIds(it) = MembersOf(lctx.impl_item_log, it.def_id.def.pos)
                /\ Range(RefIds(it)) \subseteq DOMAIN lctx.impl_items

\* an impl of two members has been lowered: two references, two records
C7_Witness ==
    /\ Done
    /\ \E it \in Range(lctx.items) :
          /\ it.kind.k = "Impl"
          /\ Len(it.kind.refs) = 2
          /\ RefIds(it) = lctx.impl_item_log
          /\ Cardinality(DOMAIN lctx.impl_items) = 2

(***************************************************************************)
(* The end-to-end scenario.                                                *)
(***************************************************************************)
\* `struct S;` followed by `pub use pkg::{x, y as z};`, each leaf resolving
\* in one namespace
EndToEndCrates ==
    {<<StructItem(Generics(<<>>, <<>>)),
       UseItem("Public", UseTree("Nested", "plain", {},
                                 <<UseTree("Simple", "plain", {ns}, <<>>),
                                   UseTree("Simple", "rename", {"value"}, <<>>)>>))>> :
         ns \in Range(Namespaces)}

\* the HirIds issued under the owner of S when `struct S;` is the whole crate
IssuedForStructAlone ==
    LET alone == <<StructItem(Generics(<<>>, <<>>))>>
        c == LowerAndInsert(MiscCollect(alone), alone[1], <<1>>).c
    IN SelectSeq(c.issued, LAMBDA h : h.owner = LocalDefId(ItemNid(<<1>>)))

\* the record is the owner of itself and of every id it carries
OwnOwner(nid) ==
    /\ LocalDefId(nid) \in lctx.opened
    /\ RecordOf(nid).def_id = LocalDefId(nid)
    /\ lctx.node_id_to_hir_id[nid] = [owner |-> LocalDefId(nid), local_id |-> 0]
    /\ \A h \in ItemIds(RecordOf(nid)) : h.owner = LocalDefId(nid)

\* C8: lowering `struct S;` then `pub use pkg::{x, y as z};` ends with four
\* items: the struct S, a Single named x whose target is what x resolved to,
\* with path pkg::x, a Single named z whose target is what y resolved to,
\* with path pkg::y, and a ListStem of inherited visibility; each import
\* record is its own owner, and the HirIds issued under S are those issued
\* when S is lowered alone
C8_EndToEnd ==
    (Done /\ crate \in EndToEndCrates) =>
      /\ DOMAIN lctx.items = {LocalDefId(ItemNid(<<1>>)), LocalDefId(ItemNid(<<2>>)),
                              LocalDefId(ItemNid(<<2, 1>>)), LocalDefId(ItemNid(<<2, 2>>))}
      /\ RecordOf(ItemNid(<<1>>)).kind.k = "Struct"
      /\ Cardinality(ImportRecords) = 3
      /\ RecordOf(ItemNid(<<2, 1>>)).kind.use_kind = "Single"
      /\ RecordOf(ItemNid(<<2, 1>>)).ident = Ident("leaf", <<2, 1>>)
      /\ RecordOf(ItemNid(<<2, 1>>)).kind.path.res
           = ExpectFullResFromUse(crate[2].tree.kids[1], <<2, 1>>)[1]
      /\ PathIdents(RecordOf(ItemNid(<<2, 1>>)).kind.path)
           = <<Ident("stem", <<2>>), Ident("leaf", <<2, 1>>)>>
      /\ RecordOf(ItemNid(<<2, 2>>)).kind.use_kind = "Single"
      /\ RecordOf(ItemNid(<<2, 2>>)).ident = Ident("alias", <<2, 2>>)
      /\ RecordOf(ItemNid(<<2, 2>>)).kind.path.res
           = [ns |-> "value", target |-> ItemNid(<<2, 2>>)]
      /\ PathIdents(RecordOf(ItemNid(<<2, 2>>)).kind.path)
           = <<Ident("stem", <<2>>), Ident("leaf", <<2, 2>>)>>
      /\ RecordOf(ItemNid(<<2>>)).kind.use_kind = "ListStem"
      /\ RecordOf(ItemNid(<<2>>)).vis.node = "Inherited"
      /\ \A p \in {<<2>>, <<2, 1>>, <<2, 2>>} : OwnOwner(ItemNid(p))
      /\ IssuedUnder(LocalDefId(ItemNid(<<1>>))) = IssuedForStructAlone

\* the scenario has run to its end, with the struct and three import
\* records, and S holds the two HirIds of a unit struct
C8_Witness ==
    /\ Done
    /\ crate \in EndToEndCrates
    /\ Cardinality(DOMAIN lctx.items) = 4
    /\ Len(IssuedUnder(LocalDefId(ItemNid(<<1>>)))) = 2
    /\ IssuedForStructAlone = IssuedUnder(LocalDefId(ItemNid(<<1>>)))

(***************************************************************************)
(* Resolutions of an import.                                               *)
(***************************************************************************)
SimpleUses == {n \in WrittenUses : n.tree.kind = "Simple"}

\* what the resolver returns for a written node, in the order of PerNS
Hits(n) == ExpectFullResFromUse(n.tree, n.pos)

\* the id reserved for the m-th further namespace of a leaf
SpareId(n, m) == Nid("ns", n.pos, m)

RestLowered(pos) ==
    /\ \A i \in DOMAIN crate : i > pos[1] => HasRecord(ItemNid(<<i>>))
    /\ \A n \in WrittenUses :
          (Len(n.pos) = Len(pos) /\ Len(pos) > 1 /\ Front(n.pos) = Front(pos)
           /\ Last(n.pos) > Last(pos)) => HasRecord(ItemNid(n.pos))

\* C10: no run is aborted; and at its end a simple leaf, or a nested group,
\* for which the resolver has no hit has exactly one record, under its own
\* id, whose target is the error marker, no record under a spare id, and
\* everything written after it has been lowered
C10_UnresolvedImport ==
    /\ lctx.fault = "none"
    /\ Done =>
          \A n \in WrittenUses :
              (n.tree.kind \in {"Simple", "Nested"} /\ Len(Hits(n)) = 0) =>
                /\ HasRecord(ItemNid(n.pos))
                /\ RecordOf(ItemNid(n.pos)).kind.k = "Use"
                /\ RecordOf(ItemNid(n.pos)).kind.path.res = ResErr
                /\ ~HasRecord(SpareId(n, 1))
                /\ ~HasRecord(SpareId(n, 2))
                /\ RestLowered(n.pos)

\* `use leaf;` with no resolution, followed by a struct: the run is over,
\* the import has its record with the error marker, the struct is lowered
C10_Witness ==
    /\ Done
    /\ crate[1].kind = "Use"
    /\ crate[1].tree = UseTree("Simple", "plain", {}, <<>>)
    /\ RecordOf(ItemNid(<<1>>)).kind.path.res = ResErr
    /\ RecordOf(ItemNid(<<2>>)).kind.k = "Struct"

(***************************************************************************)
(* Order and number of insertions.                                         *)
(***************************************************************************)
RECURSIVE SurfaceNodes(_, _)
\* every item, member and foreign item written below pos, with its position
SurfaceNodes(kids, pos) ==
    UNION {{[pos |-> pos \o <<j>>, node |-> kids[j]]}
           \cup SurfaceNodes(kids[j].kids, pos \o <<j>>) : j \in DOMAIN kids}

IsPrefix(p, q) == Len(p) <= Len(q) /\ SubSeq(q, 1, Len(p)) = p

\* p is at or below a `use` item: it is a node of a use tree
InUseTree(p) ==
    \E n \in SurfaceNodes(crate, <<>>) : n.node.kind = "Use" /\ IsPrefix(n.pos, p)

\* p and q part ways, and p takes the earlier branch: everything written at
\* or below p comes before q in the source
WrittenBefore(p, q) ==
    \E k \in 1..Len(p) :
        /\ k <= Len(q)
        /\ SubSeq(p, 1, k - 1) = SubSeq(q, 1, k - 1)
        /\ p[k] < q[k]

\* C11: in the order in which insert_item received them, a record written
\* before another one in the source comes first: an item before the items
\* declared after it, an enclosing item before the items nested in it, and,
\* among the import records of one use tree, the records of a leaf or group
\* before those of the nodes that follow it in its group (depth-first)
C11_InsertionOrder ==
    \A a, b \in DOMAIN lctx.item_log :
        /\ WrittenBefore(lctx.item_log[a].def.pos, lctx.item_log[b].def.pos) => a < b
        /\ (/\ IsPrefix(lctx.item_log[a].def.pos, lctx.item_log[b].def.pos)
            /\ lctx.item_log[a].def.pos # lctx.item_log[b].def.pos
            /\ ~InUseTree(lctx.item_log[a].def.pos)) => a < b

\* `struct S; use m::{a, b};` has been lowered: S first, then a, then b,
\* then the list stem
C11_Witness ==
    /\ Done
    /\ crate[1].kind = "Struct"
    /\ Len(crate[2].tree.kids) = 2
    /\ \A j \in 1..2 : Cardinality(crate[2].tree.kids[j].res) <= 1
    /\ lctx.item_log = <<LocalDefId(ItemNid(<<1>>)), LocalDefId(ItemNid(<<2, 1>>)),
                         LocalDefId(ItemNid(<<2, 2>>)), LocalDefId(ItemNid(<<2>>))>>

RECURSIVE SurfaceItems(_, _, _)
\* the nodes below pos that visit_item is called for: the items of the
\* crate and of modules, and the items in the bodies of methods
SurfaceItems(kids, pos, role) ==
    UNION {(IF role = "item" THEN {[pos |-> pos \o <<j>>, node |-> kids[j]]} ELSE {})
           \cup SurfaceItems(kids[j].kids, pos \o <<j>>,
                             CASE role = "item" /\ kids[j].kind = "Mod" -> "item"
                               [] role = "item" /\ kids[j].kind \in {"Impl", "Trait"} -> "assoc"
                               [] role = "assoc" -> "item"
                               [] OTHER -> "none")
           : j \in DOMAIN kids}

Occurrences(log, x) == Cardinality({a \in DOMAIN log : log[a] = x})

\* C12: no definition id is handed to insert_item twice, the ids of import
\* records included, and the item map holds exactly the ids inserted; at the
\* end of the run every surface item was visited exactly once, and each one
\* that is not a macro definition has its entry in the item map, under its
\* own id, inserted once, while a macro definition has none
C12_ExactlyOnce ==
    /\ \A a, b \in DOMAIN lctx.item_log : lctx.item_log[a] = lctx.item_log[b] => a = b
    /\ Range(lctx.item_log) = DOMAIN lctx.items
    /\ \A d \in DOMAIN lctx.items : lctx.items[d].def_id = d
    /\ Done =>
          \A n \in SurfaceItems(crate, <<>>, "item") :
              /\ Cardinality({a \in DOMAIN trace : trace[a].pos = n.pos}) = 1
              /\ IF n.node.kind = "MacroDef"
                 THEN ~HasRecord(ItemNid(n.pos))
                 ELSE /\ HasRecord(ItemNid(n.pos))
                      /\ Occurrences(lctx.item_log, LocalDefId(ItemNid(n.pos))) = 1

\* a module of a `use` item and a macro definition has been lowered: the
\* module, the list stem, the leaf and its second namespace are in the item
\* map, once each, and the macro definition is not
C12_Witness ==
    /\ Done
    /\ crate[1].kind = "Mod"
    /\ Len(crate[1].kids) = 2
    /\ crate[1].kids[1].kind = "Use"
    /\ crate[1].kids[2].kind = "MacroDef"
    /\ Len(lctx.item_log) = 4
    /\ Cardinality(DOMAIN lctx.items) = 4
    /\ Len(trace) = 3

(***************************************************************************)
(* The list of in-band lifetimes being collected.                          *)
(***************************************************************************)
\* C13: between any two steps of the walk, so immediately before and
\* immediately after the lowering of every item, member and foreign item,
\* lifetimes_to_define is empty, and the assertion that guards the entry of
\* an item has never failed
C13_TransientListEmpty ==
    /\ lctx.lifetimes_to_define = <<>>
    /\ lctx.fault # "lifetimes_to_define is not empty"

\* a method that names a lifetime it does not declare has been lowered: the
\* lifetime was collected and became a parameter, and the list is empty again
C13_Witness ==
    /\ Done
    /\ lctx.lifetimes_to_define = <<>>
    /\ \E m \in Range(lctx.impl_items) \cup Range(lctx.trait_items) :
          /\ m.kind = "Fn"
          /\ \E q \in Range(m.generics.params) : q.name = Name("'n", "root")


(***************************************************************************)
(* Calling conventions.                                                    *)
(***************************************************************************)
\* the node carries an ABI string that names no ABI, on a foreign block or
\* on the header of a function
InvalidAbi(node) ==
    /\ node.kind = "ForeignMod" \/ (node.kind = "Fn" /\ node.ext = "Explicit")
    /\ node.abi \notin KnownAbis \cup {"none"}

\* the ABI of the lowered record of the node at pos; "none" for a record
\* without one, "unlowered" while there is no record
AbiOf(pos) ==
    LET d == LocalDefId(ItemNid(pos))
    IN CASE d \in DOMAIN lctx.items -> lctx.items[d].kind.abi
         [] d \in DOMAIN lctx.impl_items -> lctx.impl_items[d].abi
         [] d \in DOMAIN lctx.trait_items -> lctx.trait_items[d].abi
         [] d \in DOMAIN lctx.foreign_items -> lctx.foreign_items[d].abi
         [] OTHER -> "unlowered"

\* the functions written in the foreign blocks of the crate
ForeignFnNodes ==
    UNION {{[pos |-> m.pos \o <<j>>, node |-> m.node.kids[j]] :
               j \in {i \in DOMAIN m.node.kids : m.node.kids[i].kind = "Fn"}} :
           m \in {n \in SurfaceNodes(crate, <<>>) : n.node.kind = "ForeignMod"}}

\* the node at p is written in the body of a foreign function
InForeignBody(p) == \E f \in ForeignFnNodes : IsPrefix(f.pos, p) /\ f.pos # p

MacroDefsVisited ==
    {n \in SurfaceItems(crate, <<>>, "item") :
        n.node.kind = "MacroDef" /\ \E a \in DOMAIN trace : trace[a].pos = n.pos}

\* C15 as stated: a macro definition that was visited aborted the run
C15_AsStated == \A n \in MacroDefsVisited : lctx.fault # "none"

\* C15, amended: a macro definition that was visited did not abort the run
\* and has no lowered item; an exported one is in the exported macros under
\* its own def id and name, and one that is not exported is not there and
\* left its attributes in non_exported_macro_attrs
C15_MacroDefinition ==
    \A n \in MacroDefsVisited :
        /\ lctx.fault = "none"
        /\ ~HasRecord(ItemNid(n.pos))
        /\ IF ~n.node.macro_rules \/ "macro_export" \in Range(n.node.attrs)
           THEN Cardinality({k \in DOMAIN lctx.exported_macros :
                                /\ lctx.exported_macros[k].def_id = LocalDefId(ItemNid(n.pos))
                                /\ lctx.exported_macros[k].ident = ItemIdent(n.pos)}) = 1
           ELSE /\ \A k \in DOMAIN lctx.exported_macros :
                      lctx.exported_macros[k].def_id # LocalDefId(ItemNid(n.pos))
                /\ Range(n.node.attrs) \subseteq Range(lctx.non_exported_macro_attrs)

\* a finished run over a module of an exported macro definition, one that
\* is not exported, and nothing else: the module is the only item
C15_Witness ==
    /\ Done
    /\ crate[1].kind = "Mod" /\ Len(crate[1].kids) = 2
    /\ crate[1].kids[1].kind = "MacroDef" /\ crate[1].kids[1].attrs = <<"macro_export">>
    /\ crate[1].kids[2].kind = "MacroDef" /\ crate[1].kids[2].attrs = <<"doc">>
    /\ Cardinality(MacroDefsVisited) = 2
    /\ Len(lctx.exported_macros) = 1 /\ lctx.non_exported_macro_attrs = <<"doc">>
    /\ DOMAIN lctx.items = {LocalDefId(ItemNid(<<1>>))}

(***************************************************************************)
(* Foreign functions.                                                      *)
(***************************************************************************)
\* no body of the body table belongs to the foreign function f, and its
\* lowered record names none
NoBodyOf(f) ==
    /\ \A b \in DOMAIN lctx.bodies : b.owner # LocalDefId(ItemNid(f.pos))
    /\ LocalDefId(ItemNid(f.pos)) \in DOMAIN lctx.foreign_items =>
          lctx.foreign_items[LocalDefId(ItemNid(f.pos))].body_id = NoHirId

\* C16 as stated: no foreign function has a body in the body table, and
\* once a foreign function that carries a body was lowered the run is
\* aborted
C16_AsStated ==
    \A f \in ForeignFnNodes :
        /\ NoBodyOf(f)
        /\ f.node.body /\ LocalDefId(ItemNid(f.pos)) \in DOMAIN lctx.foreign_items =>
              lctx.fault # "none"

\* C16, amended: no foreign function has a body in the body table; one that
\* carries a body does not abort the run, nothing written in the body is
\* lowered, no diagnostic points at the function, and when the run ends the
\* function has its record
C16_ForeignFunction ==
    \A f \in ForeignFnNodes :
        /\ NoBodyOf(f)
        /\ lctx.fault = "none"
        /\ \A n \in SurfaceNodes(f.node.kids, f.pos) : AbiOf(n.pos) = "unlowered"
        /\ \A k \in DOMAIN lctx.diagnostics : lctx.diagnostics[k].span.pos # f.pos
        /\ Done => LocalDefId(ItemNid(f.pos)) \in DOMAIN lctx.foreign_items

\* a finished run over a foreign block whose function has a body with a
\* struct in it, followed by a function with a body: the body table holds
\* the body of the second only
C16_Witness ==
    /\ Done
    /\ crate[1].kind = "ForeignMod" /\ crate[1].kids[1].body /\ Len(crate[1].kids[1].kids) = 1
    /\ crate[2].kind = "Fn" /\ crate[2].body
    /\ LocalDefId(ItemNid(<<1, 1>>)) \in DOMAIN lctx.foreign_items
    /\ {b.owner : b \in DOMAIN lctx.bodies} = {LocalDefId(ItemNid(<<2>>))}
    /\ DOMAIN lctx.items = {LocalDefId(ItemNid(<<1>>)), LocalDefId(ItemNid(<<2>>))}

(***************************************************************************)
(* Internal faults.                                                        *)
(***************************************************************************)
\* the nodes the lowering is not meant to meet: macro invocations, as items
\* or members, and modules that were not loaded
Offenders ==
    {n \in SurfaceNodes(crate, <<>>) :
        /\ n.node.kind = "MacCall" \/ (n.node.kind = "Mod" /\ ~n.node.loaded)
        /\ ~InForeignBody(n.pos)}

\* C17: a module that was not loaded and a macro invocation, as an item or
\* as a member of a trait, an impl or a foreign block, never have a record
\* in the items or in a member table, nor a diagnostic; nothing written
\* after or below one is ever lowered; a run over a crate with one does not
\* end normally, and a run that faults has met one
C17_InternalFault ==
    /\ \A o \in Offenders :
          /\ AbiOf(o.pos) = "unlowered"
          /\ \A k \in DOMAIN lctx.diagnostics : lctx.diagnostics[k].span.pos # o.pos
          /\ \A k \in DOMAIN lctx.exported_macros :
                lctx.exported_macros[k].def_id # LocalDefId(ItemNid(o.pos))
          /\ \A n \in SurfaceNodes(crate, <<>>) :
                WrittenBefore(o.pos, n.pos) \/ IsPrefix(o.pos, n.pos) =>
                   AbiOf(n.pos) = "unlowered"
    /\ Done => Offenders = {}
    /\ lctx.fault # "none" => Offenders # {}

\* a run that faulted on the macro invocation after the function of a
\* foreign block: the block and the function have their records, the macro
\* invocation and the struct after the block have none
C17_Witness ==
    /\ lctx.fault = "macro shouldn't exist here"
    /\ crate[1].kind = "ForeignMod" /\ Len(crate[1].kids) = 2
    /\ crate[1].kids[2].kind = "MacCall"
    /\ crate[2].kind = "Struct"
    /\ DOMAIN lctx.items = {LocalDefId(ItemNid(<<1>>))}
    /\ DOMAIN lctx.foreign_items = {LocalDefId(ItemNid(<<1, 1>>))}
    /\ lctx.diagnostics = <<>>

(***************************************************************************)
(* Enter/restore discipline.                                               *)
(***************************************************************************)
\* the frames of the stack whose item is of the given kind
FramesOf(kind) == {i \in DOMAIN stack : stack[i].kind = "item" /\ stack[i].node.kind = kind}

Innermost(frames) == CHOOSE i \in frames : \A j \in frames : j <= i

\* the module the walk is in: the innermost module entered and not left
EnclosingModule ==
    IF FramesOf("Mod") = {} THEN LocalDefId(CRATE_NODE_ID)
    ELSE LocalDefId(ItemNid(stack[Innermost(FramesOf("Mod"))].pos))

\* whether the innermost impl entered and not left implements a trait
EnclosingTraitImpl ==
    IF FramesOf("Impl") = {} THEN FALSE
    ELSE stack[Innermost(FramesOf("Impl"))].node.of_trait

\* while the run goes on, the current module and the trait-impl flag are
\* those of the subtrees entered and not left, every visit_item that
\* returned left the in-scope lifetimes as it found them, and no body's
\* generator kind or task context is left behind
RestoredOnReturn ==
    lctx.fault = "none" =>
       /\ lctx.current_module = EnclosingModule
       /\ lctx.is_in_trait_impl = EnclosingTraitImpl
       /\ \A n \in DOMAIN trace : trace[n].exit = trace[n].entry
       /\ lctx.generator_kind = "None" /\ lctx.task_context = "None"
       /\ stack = <<>> => lctx.in_scope_lifetimes = <<>>

\* once a fault has ended the run, every subtree has been left, and the
\* four are as they were before the first was entered
RestoredOnFault ==
    lctx.fault # "none" =>
       /\ lctx.current_module = LocalDefId(CRATE_NODE_ID)
       /\ lctx.is_in_trait_impl = FALSE
       /\ lctx.in_scope_lifetimes = <<>>
       /\ lctx.generator_kind = "None" /\ lctx.task_context = "None"

\* C18 as stated: the current module, the in-scope lifetimes, the
\* trait-impl flag and the generator kind and task context of a body are
\* restored when a subtree is left, by a return and by a fault alike
C18_AsStated == RestoredOnReturn /\ RestoredOnFault

\* a run that faulted on a macro invocation inside a module: the module is
\* still the current one
C18_Witness ==
    /\ lctx.fault = "TyMac should have been expanded by now"
    /\ crate[1].kind = "Mod" /\ crate[1].kids[1].kind = "MacCall"
    /\ lctx.current_module = LocalDefId(ItemNid(<<1>>))

(***************************************************************************)
(* Bodies of functions.                                                    *)
(***************************************************************************)
\* the functions of the crate that are items or members of traits and impls
FnNodes ==
    {n \in SurfaceNodes(crate, <<>>) \ ForeignFnNodes :
        n.node.kind = "Fn" /\ ~InForeignBody(n.pos)}

\* the function is a method of a trait
IsTraitMethod(n) ==
    \E m \in SurfaceNodes(crate, <<>>) : m.node.kind = "Trait" /\ m.pos = Front(n.pos)

\* the body the lowered record of the function at pos names, if any
BodyIdOf(pos) ==
    LET d == LocalDefId(ItemNid(pos))
    IN CASE d \in DOMAIN lctx.items -> lctx.items[d].kind.body_id
         [] d \in DOMAIN lctx.impl_items -> lctx.impl_items[d].body_id
         [] d \in DOMAIN lctx.trait_items -> lctx.trait_items[d].body_id
         [] OTHER -> NoHirId

\* the pattern is a by-value binding to a name, `x` or `mut x`
SimplePat(pat) == pat = Pat("Binding", "Unannotated") \/ pat = Pat("Binding", "Mutable")

RECURSIVE StmtsBefore(_, _)
\* one statement for each simple pattern and two for each other one, over
\* the parameters before the k-th
StmtsBefore(params, k) ==
    IF k <= 1 THEN 0
    ELSE StmtsBefore(params, k - 1) + (IF SimplePat(params[k - 1]) THEN 1 ELSE 2)

\* the body of the function n is a closure over a generator body whose
\* block holds the capture statements of the parameters in ascending
\* order: for a simple pattern one statement binding the original pattern
\* to the placeholder declared in its place, for another pattern a fresh
\* `mut` binding to the placeholder and then the original pattern to that
\* binding; the function declares as many parameters as the source
Captured(n) ==
    LET outer == lctx.bodies[BodyIdOf(n.pos)]
        inner == lctx.bodies[outer.value.body_id]
        stmts == inner.value.stmts
        ps == n.node.params
    IN /\ outer.value.kind = "Closure"
       /\ inner.value.kind = "Block" /\ inner.generator_kind = "Async"
       /\ Len(outer.params) = Len(ps)
       /\ Len(stmts) = StmtsBefore(ps, Len(ps) + 1)
       /\ \A k \in DOMAIN ps :
             LET off == StmtsBefore(ps, k)
                 orig == lctx.node_id_to_hir_id[Nid("pat", n.pos, k)]
                 placeholder == outer.params[k].pat.hir_id
                 last == stmts[off + (IF SimplePat(ps[k]) THEN 1 ELSE 2)]
             IN /\ placeholder # orig
                /\ last.pat.hir_id = orig
                /\ Pat(last.pat.kind, last.pat.mode) = ps[k]
                /\ stmts[off + 1].init.from = placeholder
                /\ ~SimplePat(ps[k]) =>
                      /\ stmts[off + 1].pat.kind = "Binding"
                      /\ stmts[off + 1].pat.mode = "Mutable"
                      /\ stmts[off + 1].pat.hir_id \notin {orig, placeholder}
                      /\ last.init.from = stmts[off + 1].pat.hir_id

\* the body of the function n is lowered as written: its value is the
\* block or, without a body, the error placeholder, and it declares the
\* parameters of the source with their own patterns
LoweredPlain(n) ==
    LET body == lctx.bodies[BodyIdOf(n.pos)]
    IN /\ body.value.kind = (IF n.node.body THEN "Block" ELSE "Err")
       /\ body.value.stmts = <<>> /\ body.value.tail = <<>>
       /\ body.generator_kind = "None"
       /\ Len(body.params) = Len(n.node.params)
       /\ \A k \in DOMAIN body.params :
             body.params[k].pat.hir_id = lctx.node_id_to_hir_id[Nid("pat", n.pos, k)]

NoBodyUnder(pos) == \A b \in DOMAIN lctx.bodies : b.owner # LocalDefId(ItemNid(pos))

\* the functions without a body that have their lowered record, async or not
Bodiless(asyncness) ==
    {n \in FnNodes :
        n.node.asyncness = asyncness /\ ~n.node.body /\ AbiOf(n.pos) # "unlowered"}

\* C20 as stated: the recorded body of a lowered async function without a
\* body has the error placeholder as its value, and no generator body and
\* no statement was built for the function
C20_AsStated ==
    \A n \in Bodiless(TRUE) :
        /\ BodyIdOf(n.pos) \in DOMAIN lctx.bodies
        /\ lctx.bodies[BodyIdOf(n.pos)].value.kind = "Err"
        /\ \A b \in DOMAIN lctx.bodies :
              b.owner = LocalDefId(ItemNid(n.pos)) =>
                 lctx.bodies[b].generator_kind = "None" /\ lctx.bodies[b].value.stmts = <<>>

\* C20, amended: a lowered async function without a body that is an item or
\* a method of an impl has the closure, the generator body and the capture
\* statements of an async function, with the error placeholder under the
\* drop-temps of the block; a method of a trait without a body has no body
\* in the body table, async or not; any other function without a body and
\* without the async marker has the error placeholder as its body's value
C20_BodilessAsync ==
    /\ \A n \in Bodiless(TRUE) :
          IF IsTraitMethod(n) THEN BodyIdOf(n.pos) = NoHirId /\ NoBodyUnder(n.pos)
          ELSE LET outer == lctx.bodies[BodyIdOf(n.pos)]
                   block == lctx.bodies[outer.value.body_id]
               IN /\ outer.value.kind = "Closure"
                  /\ Len(outer.params) = Len(n.node.params)
                  /\ block.generator_kind = "Async"
                  /\ block.value.kind = "Block"
                  /\ Len(block.value.stmts) = StmtsBefore(n.node.params, Len(n.node.params) + 1)
                  /\ block.value.tail[1].kind = "DropTemps"
                  /\ block.value.tail[1].tail[1].kind = "Err"
    /\ \A n \in Bodiless(FALSE) :
          IF IsTraitMethod(n) THEN BodyIdOf(n.pos) = NoHirId /\ NoBodyUnder(n.pos)
          ELSE LoweredPlain(n)

\* a finished run over `async fn f(_);`: a closure over a generator body of
\* two statements and the error placeholder
C20_Witness ==
    /\ Done
    /\ crate[1].kind = "Fn" /\ crate[1].asyncness /\ ~crate[1].body
    /\ crate[1].params = <<Pat("Wild", "none")>>
    /\ lctx.bodies[BodyIdOf(<<1>>)].value.kind = "Closure"
    /\ Len(lctx.bodies[lctx.bodies[BodyIdOf(<<1>>)].value.body_id].value.stmts) = 2
    /\ Cardinality(DOMAIN lctx.bodies) = 2

\* the async functions that have their lowered record and are items or
\* methods of impls: the ones lower_maybe_async_body is called for
AsyncLowered ==
    {n \in FnNodes :
        n.node.asyncness /\ ~IsTraitMethod(n) /\ AbiOf(n.pos) # "unlowered"}

\* the block of the generator body built for the async function n
GeneratorBlockOf(n) == lctx.bodies[lctx.bodies[BodyIdOf(n.pos)].value.body_id].value

\* C21: the body generated for an async function is a closure over a
\* generator body whose block is the capture statements of the parameters,
\* each a `let` of a path, followed by one tail expression, drop-temps
\* around the lowered user body: the user body is no statement of the
\* block and is not the tail itself
C21_DropOrderWrapper ==
    \A n \in AsyncLowered :
        /\ lctx.bodies[BodyIdOf(n.pos)].value.kind = "Closure"
        /\ GeneratorBlockOf(n).kind = "Block"
        /\ Len(GeneratorBlockOf(n).stmts) = StmtsBefore(n.node.params, Len(n.node.params) + 1)
        /\ \A k \in DOMAIN GeneratorBlockOf(n).stmts :
              /\ GeneratorBlockOf(n).stmts[k].source = "AsyncFn"
              /\ GeneratorBlockOf(n).stmts[k].init.kind = "Path"
        /\ Len(GeneratorBlockOf(n).tail) = 1
        /\ GeneratorBlockOf(n).tail[1].kind = "DropTemps"
        /\ GeneratorBlockOf(n).tail[1].stmts = <<>>
        /\ Len(GeneratorBlockOf(n).tail[1].tail) = 1
        /\ GeneratorBlockOf(n).tail[1].tail[1].kind = (IF n.node.body THEN "Block" ELSE "Err")
        /\ GeneratorBlockOf(n).tail[1].tail[1].tail = <<>>

\* a finished run over an impl whose method is `async fn f(ref x) { .. }`:
\* two statements, then drop-temps around the block
C21_Witness ==
    /\ Done
    /\ crate[1].kind = "Impl" /\ crate[1].kids[1].asyncness /\ crate[1].kids[1].body
    /\ crate[1].kids[1].params = <<Pat("Binding", "Ref")>>
    /\ Len(GeneratorBlockOf([pos |-> <<1, 1>>, node |-> crate[1].kids[1]]).stmts) = 2
    /\ GeneratorBlockOf([pos |-> <<1, 1>>, node |-> crate[1].kids[1]]).tail[1].tail[1].kind
          = "Block"

(***************************************************************************)
(* The header of an impl and its members.                                  *)
(***************************************************************************)
ImplNodes == {n \in SurfaceNodes(crate, <<>>) : n.node.kind = "Impl"}

\* the names of the lifetime parameters among lowered generic parameters
LifetimesIn(params) ==
    {NormalizeToMacros20(params[k].name) :
        k \in {i \in DOMAIN params : params[i].kind = "Lifetime"}}

\* the ids of the parameters that the lowered impl at pos got for lifetimes
\* its header names without declaring them
InBandIdsOf(n) ==
    LET params == RecordOf(ItemNid(n.pos)).kind.generics.params
    IN {params[k].hir_id :
           k \in {i \in DOMAIN params :
                     /\ params[i].kind = "Lifetime"
                     /\ params[i].name \notin LifetimesIn(n.node.generics.params)}}

\* C22: the lowered generics of an impl hold a lifetime parameter for every
\* lifetime its header names; the ids of the parameters collected from the
\* header are issued before any id under a member of the impl is, the
\* member's own id apart, which is allocated before the walk: so before the
\* reference to the member is built, which lowers its visibility under the
\* member, and before the member is lowered; and no lowered member of the
\* impl has a lifetime parameter of its own named like one of the impl's
C22_ImplHeaderFirst ==
    \A n \in ImplNodes :
        HasRecord(ItemNid(n.pos)) =>
            LET params == RecordOf(ItemNid(n.pos)).kind.generics.params
            IN /\ {NormalizeToMacros20(n.node.lts[k]) : k \in DOMAIN n.node.lts}
                      \subseteq LifetimesIn(params)
               /\ \A j \in DOMAIN n.node.kids :
                     LET d == LocalDefId(ItemNid(n.pos \o <<j>>))
                     IN /\ \A h \in InBandIdsOf(n) : \A i \in DOMAIN lctx.issued :
                              lctx.issued[i].owner = d /\ lctx.issued[i].local_id > 0 =>
                                  \E k \in 1..(i - 1) : lctx.issued[k] = h
                        /\ d \in DOMAIN lctx.impl_items =>
                              LifetimesIn(lctx.impl_items[d].generics.params)
                                  \cap LifetimesIn(params) = {}

\* `impl<'a> Tr<'b> for S<'a> { fn f<'m>(..'b..) }` has been lowered: the
\* impl has the parameters 'a and 'b, the method only 'm
C22_Witness ==
    /\ Done
    /\ crate[1].kind = "Impl"
    /\ crate[1].lts = <<Name("'a", "root"), Name("'b", "root")>>
    /\ crate[1].kids[1].lts = <<Name("'b", "root")>>
    /\ InBandIdsOf([pos |-> <<1>>, node |-> crate[1]]) # {}
    /\ \E i \in DOMAIN lctx.issued :
          lctx.issued[i].owner = LocalDefId(ItemNid(<<1, 1>>)) /\ lctx.issued[i].local_id > 0
    /\ LifetimesIn(lctx.impl_items[LocalDefId(ItemNid(<<1, 1>>))].generics.params)
           = {Name("'m", "root")}

(***************************************************************************)
(* In-scope lifetimes of items and of members.                             *)
(***************************************************************************)
\* C23: every lowering of an item, at whatever depth and whatever lifetimes
\* were in scope around it, began with no lifetime in scope and ended with
\* none, and the assertion that checks the latter never failed
C23_NoInheritedLifetimes ==
    /\ \A k \in DOMAIN lctx.lowerings :
          lctx.lowerings[k].start = <<>> /\ lctx.lowerings[k].finish = <<>>
    /\ lctx.fault # "in_scope_lifetimes is not empty"

\* an impl nested in the body of a method of an impl has just been lowered,
\* with the lifetimes of the outer impl in scope around it
C23_Witness ==
    /\ Len(stack) = 4
    /\ stack[2].node.kind = "Impl"
    /\ stack[3].kind = "assoc"
    /\ stack[4].node.kind = "Impl"
    /\ stack[4].entry # <<>>
    /\ lctx.lowerings[Len(lctx.lowerings)] = [pos |-> stack[4].pos, start |-> <<>>, finish |-> <<>>]

\* the lifetimes that come into scope for the members of the item of a
\* frame: the names of the lifetime parameters of the lowered generics of an
\* impl or trait, in their order; none for any other item
SeededBy(frame) ==
    IF frame.node.kind \in {"Impl", "Trait"}
    THEN InScopeNames(RecordOf(ItemNid(frame.pos)).kind.generics.params)
    ELSE <<>>

\* the lowered member at pos, of an impl or a trait
MemberAt(pos) ==
    LET d == LocalDefId(ItemNid(pos))
    IN IF d \in DOMAIN lctx.impl_items THEN lctx.impl_items[d] ELSE lctx.trait_items[d]

\* C24: while the children of an item are walked, the lifetimes in scope are
\* those in scope before the item was visited followed by the names of the
\* lifetime parameters of the lowered generics of the item if it is an impl or
\* trait, in parameter order, and by nothing for any other item; and each
\* member lowered under the item has, after its declared lifetime
\* parameters, one for each lifetime of its signature that is not among
\* those, and no other
C24_MembersInheritLifetimes ==
    \A i \in DOMAIN stack :
        stack[i].kind = "item" =>
            LET scope == stack[i].entry \o SeededBy(stack[i])
            IN /\ (\A k \in (i + 1)..Len(stack) : stack[k].kind # "item")
                      => lctx.in_scope_lifetimes = scope
               /\ \A j \in DOMAIN stack[i].node.kids :
                     LET member == stack[i].node.kids[j]
                         declared == InScopeNames(member.generics.params)
                         named == [n \in DOMAIN member.lts |-> NormalizeToMacros20(member.lts[n])]
                     IN /\ stack[i].node.kind \in {"Impl", "Trait"}
                        /\ j < stack[i].next
                        => InScopeNames(MemberAt(stack[i].pos \o <<j>>).generics.params)
                               = declared \o SelectSeq(named, LAMBDA l :
                                                l \notin Range(scope) \cup Range(declared))

\* the method of `impl<'c, T> S<'c, T>`, nested in the body of the method of
\* `impl<'a> Tr<'b> for S<'a>`, has just been lowered with 'a, 'b and 'c in
\* scope: of the 'a and 'n its signature names it got a parameter for 'n only
C24_Witness ==
    /\ Len(stack) = 5
    /\ stack[5].kind = "assoc"
    /\ stack[5].node.lts = <<Name("'a", "root"), Name("'n", "semi")>>
    /\ stack[4].entry = <<Name("'a", "root"), Name("'b", "root")>>
    /\ lctx.in_scope_lifetimes
           = <<Name("'a", "root"), Name("'b", "root"), Name("'c", "root")>>
    /\ InScopeNames(MemberAt(stack[5].pos).generics.params)
           = <<Name("'m", "root"), Name("'n", "root")>>

(***************************************************************************)
(* The current module and the members registered under it.                 *)
(***************************************************************************)
\* the innermost module around the node at pos, the crate root if none
ModuleAround(pos) ==
    LET mods == {m \in SurfaceNodes(crate, <<>>) :
                    m.node.kind = "Mod" /\ m.pos # pos /\ IsPrefix(m.pos, pos)}
    IN IF mods = {} THEN LocalDefId(CRATE_NODE_ID)
       ELSE LocalDefId(ItemNid(
                (CHOOSE m \in mods : \A o \in mods : Len(o.pos) <= Len(m.pos)).pos))

\* the modules that list the member d of the table
ListedUnder(table, d) == {m \in DOMAIN lctx.modules : d \in lctx.modules[m][table]}

\* C25: the current module is the innermost module whose children are being
\* visited, the crate root if there is none: a module becomes the current
\* one while its children are visited and the one before comes back after,
\* and no other item changes it; so every trait member, impl member and
\* foreign item lowered is listed under the innermost module around it,
\* and under no other
C25_CurrentModule ==
    /\ lctx.current_module = EnclosingModule
    /\ \A n \in SurfaceNodes(crate, <<>>) :
          \A table \in {"trait_items", "impl_items", "foreign_items"} :
              LocalDefId(ItemNid(n.pos)) \in DOMAIN lctx[table] =>
                  ListedUnder(table, LocalDefId(ItemNid(n.pos))) = {ModuleAround(n.pos)}

\* in `mod a { mod b { trait T { fn f(); } } }` the method is listed under
\* b, and the walk has returned to the crate root
C25_Witness ==
    /\ Done
    /\ lctx.current_module = LocalDefId(CRATE_NODE_ID)
    /\ {n.node.kind : n \in SurfaceNodes(crate, <<>>)} = {"Mod", "Trait", "Fn"}
    /\ LocalDefId(ItemNid(<<1, 1, 1, 1>>)) \in DOMAIN lctx.trait_items
    /\ ListedUnder("trait_items", LocalDefId(ItemNid(<<1, 1, 1, 1>>)))
           = {LocalDefId(ItemNid(<<1, 1>>))}

(***************************************************************************)
(* The trait-impl flag and `impl Trait` in the return type of a method.    *)
(***************************************************************************)
\* the methods of the impls, and those of the traits, of the crate
MethodsOf(kind) ==
    {n \in SurfaceNodes(crate, <<>>) :
        /\ n.node.kind = "Fn"
        /\ \E p \in SurfaceNodes(crate, <<>>) :
              p.node.kind = kind /\ p.pos = Front(n.pos) /\ ~InForeignBody(p.pos)}

\* the impl or trait the method n is a member of
ParentOf(n) == CHOOSE p \in SurfaceNodes(crate, <<>>) : p.pos = Front(n.pos)

\* C26: the flag is that of the innermost impl whose members are being
\* visited, true exactly when that impl implements a trait, and false
\* outside every impl: an impl sets it for its members and the value before
\* comes back after them, nested impls included; a lowered method of an impl
\* may have `impl Trait` as its return type exactly when the impl implements
\* no trait, and a lowered method of a trait never may
C26_InTraitImpl ==
    /\ lctx.is_in_trait_impl = EnclosingTraitImpl
    /\ \A n \in MethodsOf("Impl") :
          LocalDefId(ItemNid(n.pos)) \in DOMAIN lctx.impl_items =>
              lctx.impl_items[LocalDefId(ItemNid(n.pos))].impl_trait_return_allow
                  = ~ParentOf(n).node.of_trait
    /\ \A n \in MethodsOf("Trait") :
          LocalDefId(ItemNid(n.pos)) \in DOMAIN lctx.trait_items =>
              ~lctx.trait_items[LocalDefId(ItemNid(n.pos))].impl_trait_return_allow

\* the walk is back in the body of a method of the impl of a trait, after
\* an inherent impl nested there was visited: the flag is true again, the
\* method of the nested impl may return `impl Trait`, the outer one may not
C26_Witness ==
    /\ Len(stack) = 3
    /\ stack[2].node.kind = "Impl" /\ stack[2].node.of_trait
    /\ stack[3].kind = "assoc" /\ stack[3].next = 2
    /\ stack[3].node.kids[1].kind = "Impl" /\ ~stack[3].node.kids[1].of_trait
    /\ lctx.is_in_trait_impl
    /\ lctx.impl_items[LocalDefId(ItemNid(stack[3].pos \o <<1, 1>>))].impl_trait_return_allow
    /\ ~lctx.impl_items[LocalDefId(ItemNid(stack[3].pos))].impl_trait_return_allow

(***************************************************************************)
(* Ids of the paths of import records.                                     *)
(***************************************************************************)
\* the HirIds of the segments of the path of an import record, and those of
\* its visibility, slot by slot
SlotsOf(r) ==
    [k \in DOMAIN r.kind.path.segments |-> r.kind.path.segments[k].hir_id]
    \o [k \in DOMAIN r.vis.path.segments |-> r.vis.path.segments[k].hir_id]
    \o (IF r.vis.node = "Restricted" THEN <<r.vis.hir_id>> ELSE <<>>)

\* the nodes a HirId was issued for
NodesOf(h) == {nid \in DOMAIN lctx.node_id_to_hir_id : lctx.node_id_to_hir_id[nid] = h}

\* the ids written in the source that the record of a use-tree node may
\* carry: its own path segment and, for the `use` item itself, its visibility
WrittenIdsOf(r) ==
    LET d == r.def_id.def
    IN IF d.tag # "node" THEN {}
       ELSE {Nid("seg", d.pos, 1)}
            \cup (IF \E n \in SurfaceNodes(crate, <<>>) : n.pos = d.pos
                  THEN {Nid("vis", d.pos, 0), Nid("visseg", d.pos, 1)} ELSE {})

\* C27: in every import record each path segment and each id of a restricted
\* visibility was issued for one node of its own: the ids of a record are
\* pairwise different, no id is in two records, and apart from the segment
\* and the visibility written at the record's own node every one of them
\* was issued for a node made up for the copy
C27_FreshIdsForCopies ==
    /\ \A r \in ImportRecords :
          /\ Cardinality(Range(SlotsOf(r))) = Len(SlotsOf(r))
          /\ \A h \in Range(SlotsOf(r)) :
                /\ Cardinality(NodesOf(h)) = 1
                /\ \A nid \in NodesOf(h) : nid.tag = "fresh" \/ nid \in WrittenIdsOf(r)
    /\ \A r1, r2 \in ImportRecords :
          r1.def_id # r2.def_id => Range(SlotsOf(r1)) \cap Range(SlotsOf(r2)) = {}

\* a `pub(in p) use` of a group is lowered: the record of a child of the
\* group and the record for the second namespace of a leaf each have their
\* own copy of the prefix and of the visibility path
C27_Witness ==
    /\ Done
    /\ \E r1, r2 \in ImportRecords :
          /\ r1.def_id.def.tag = "ns"
          /\ r2.def_id.def.tag = "node" /\ Len(r2.def_id.def.pos) > 1
          /\ r1.vis.node = "Restricted" /\ r2.vis.node = "Restricted"
          /\ Len(r1.kind.path.segments) >= 2
          /\ Len(r2.kind.path.segments) >= 2
          /\ \A h \in Range(SlotsOf(r1)) : \A nid \in NodesOf(h) : nid.tag = "fresh"

(***************************************************************************)
(* The item ids a module lists for a `use` item.                           *)
(***************************************************************************)
ModNodes == {m \in SurfaceNodes(crate, <<>>) : m.node.kind = "Mod"}

\* the ids the lowered module m lists at or below the position p
ListedAt(m, p) ==
    SelectSeq(RecordOf(ItemNid(m.pos)).kind.item_ids, LAMBDA d : IsPrefix(p, d.def.pos))

\* the ids at or below the position p that have a record in the item map
InsertedAt(p) == {d \in DOMAIN lctx.items : IsPrefix(p, d.def.pos)}

\* the further namespaces the simple leaves of a use tree resolve in, each
\* with its leaf
FurtherHits(tree, p) ==
    UNION {{<<n.pos, k>> : k \in 2..Cardinality(n.tree.res)} :
              n \in {x \in UseNodes(tree, p) : x.tree.kind = "Simple"}}

\* C28: for every `use` item of a lowered module, the ids the module lists
\* for it begin with the item's own id, name no id twice, and number the
\* nodes of the use tree plus the further namespaces of its simple leaves;
\* every id with an import record from the tree is among them, and once the
\* run has finished the ids listed are exactly the ids with an import record
C28_ItemIdsAgree ==
    \A m \in ModNodes : \A j \in DOMAIN m.node.kids :
        (HasRecord(ItemNid(m.pos)) /\ m.node.kids[j].kind = "Use") =>
            LET p == m.pos \o <<j>>
                listed == ListedAt(m, p)
            IN /\ listed[1] = LocalDefId(ItemNid(p))
               /\ Cardinality(Range(listed)) = Len(listed)
               /\ Len(listed) = Cardinality(UseNodes(m.node.kids[j].tree, p))
                                + Cardinality(FurtherHits(m.node.kids[j].tree, p))
               /\ InsertedAt(p) \subseteq Range(listed)
               /\ Done => InsertedAt(p) = Range(listed)

\* `mod m { use a::{b::{c}}; }` with c in all three namespaces has been
\* lowered: m lists five ids for the `use`, and five import records exist
C28_Witness ==
    /\ Done
    /\ crate[1].kind = "Mod"
    /\ crate[1].kids[1].kind = "Use"
    /\ \E n \in UseNodes(crate[1].kids[1].tree, <<1, 1>>) :
          Len(n.pos) = 4 /\ Cardinality(n.tree.res) = 3
    /\ Len(ListedAt([pos |-> <<1>>, node |-> crate[1]], <<1, 1>>)) = 5
    /\ Cardinality(InsertedAt(<<1, 1>>)) = 5

(***************************************************************************)
(* What a macro definition leaves behind.                                  *)
(***************************************************************************)
MacroDefNodes == {n \in SurfaceNodes(crate, <<>>) : n.node.kind = "MacroDef"}

NodeAt(pos) == (CHOOSE n \in SurfaceNodes(crate, <<>>) : n.pos = pos).node

Exported(node) == ~node.macro_rules \/ "macro_export" \in Range(node.attrs)

\* the macro definitions whose visit has returned, in the order of the visits
MacroDefsInOrder ==
    LET visits == SelectSeq(trace, LAMBDA v : NodeAt(v.pos).kind = "MacroDef")
    IN [k \in DOMAIN visits |-> [pos |-> visits[k].pos, node |-> NodeAt(visits[k].pos)]]

RECURSIVE AttrsOf(_)
\* the attributes of the given definitions, one definition after the other
AttrsOf(defs) == IF defs = <<>> THEN <<>> ELSE Head(defs).node.attrs \o AttrsOf(Tail(defs))

\* C29: a macro definition has no entry in the item map, its id is not in
\* the item-id list of a lowered module, and the walk never goes into it;
\* the exported macros are the visited definitions that are not
\* `macro_rules` or carry the export attribute, once each in the order of
\* the visits, and the non-exported macro attributes are the attributes of
\* the other visited definitions, in the order of the visits and, for one
\* definition, in the order written
C29_MacroDefsLeaveNoItem ==
    /\ \A n \in MacroDefNodes :
          /\ ~HasRecord(ItemNid(n.pos))
          /\ \A i \in DOMAIN stack : stack[i].pos # n.pos
          /\ \A m \in ModNodes :
                HasRecord(ItemNid(m.pos)) =>
                    LocalDefId(ItemNid(n.pos)) \notin Range(RecordOf(ItemNid(m.pos)).kind.item_ids)
    /\ LET exported == SelectSeq(MacroDefsInOrder, LAMBDA d : Exported(d.node))
       IN /\ Len(lctx.exported_macros) = Len(exported)
          /\ \A k \in DOMAIN exported :
                lctx.exported_macros[k].def_id = LocalDefId(ItemNid(exported[k].pos))
    /\ lctx.non_exported_macro_attrs
           = AttrsOf(SelectSeq(MacroDefsInOrder, LAMBDA d : ~Exported(d.node)))

\* `mod m { #[doc] #[inline] macro_rules! a; #[doc] macro b; struct S; }`
\* has been lowered: m lists S alone, b is the one exported macro, and the
\* two attributes of a were kept in their order
C29_Witness ==
    /\ Done
    /\ Len(crate[1].kids) = 3
    /\ crate[1].kids[1].attrs = <<"doc", "inline">>
    /\ crate[1].kids[2].kind = "MacroDef" /\ ~crate[1].kids[2].macro_rules
    /\ crate[1].kids[3].kind = "Struct"
    /\ RecordOf(ItemNid(<<1>>)).kind.item_ids = <<LocalDefId(ItemNid(<<1, 3>>))>>
    /\ Len(lctx.exported_macros) = 1
    /\ lctx.exported_macros[1].def_id = LocalDefId(ItemNid(<<1, 2>>))
    /\ lctx.non_exported_macro_attrs = <<"doc", "inline">>

(***************************************************************************)
(* The visibility of the records of leaves.                                *)
(***************************************************************************)
\* the import records of simple and glob leaves, further namespaces included
LeafRecords == {r \in ImportRecords : r.kind.use_kind \in {"Single", "Glob"}}

\* the `use` item an import record comes from
UseItemOf(r) ==
    CHOOSE n \in SurfaceNodes(crate, <<>>) :
        n.node.kind = "Use" /\ IsPrefix(n.pos, r.def_id.def.pos)

\* C30: every Single and every Glob import record, at any depth of the use
\* tree and for a further namespace too, has the visibility kind written on
\* the `use` item it comes from, and a restricted one is restricted to the
\* path written there: what is done to the visibility of a list stem does
\* not reach the records of its children
C30_OnlyListStemDemoted ==
    \A r \in LeafRecords :
        /\ r.vis.node = UseItemOf(r).node.vis
        /\ r.vis.node = "Restricted" =>
              /\ PathIdents(r.vis.path) = <<Ident("p", UseItemOf(r).pos)>>
              /\ r.vis.path.res = [ns |-> "type", target |-> Nid("vis", UseItemOf(r).pos, 0)]

\* `pub use m::{a, *}` with a in two namespaces has been lowered: both
\* records of a and the glob record are public, the list stem is private
C30_Witness ==
    /\ Done
    /\ \E r1, r2, r3, stem \in ImportRecords :
          /\ r1.def_id.def.tag = "ns" /\ r1.vis.node = "Public"
          /\ r2.def_id.def.tag = "node" /\ r2.def_id.def.pos = r1.def_id.def.pos
          /\ r2.kind.use_kind = "Single" /\ r2.vis.node = "Public"
          /\ r3.kind.use_kind = "Glob" /\ r3.vis.node = "Public"
          /\ stem.kind.use_kind = "ListStem" /\ stem.vis.node = "Inherited"
          /\ IsPrefix(stem.def_id.def.pos, r1.def_id.def.pos)
          /\ IsPrefix(stem.def_id.def.pos, r3.def_id.def.pos)

====
